---------------------------- MODULE Spec2Model ----------------------------
(***************************************************************************)
(* Model of the barter-integration stream pipeline:                        *)
(*   transport frame -> WebSocketParser::parse -> BinanceFutures::transform *)
(*   -> ExchangeSocket buffer -> poll_next.                                *)
(*                                                                         *)
(* Strings are sequences of one-character strings so that format!() and    *)
(* to_lowercase() are computed rather than assumed.  Timestamps            *)
(* (Utc::now()) and prices/quantities are payload data that no modelled    *)
(* branch reads; they are left out of the records.                         *)
(***************************************************************************)
EXTENDS Integers, Sequences, FiniteSets, TLC

\* ------------------------------------------------------------------ bounds
\* Number of frames the transport delivers in one behaviour.
MaxFrames == 3
\* The number of Sink calls made on a socket
MaxSinkCalls == 2

\* ----------------------------------------------------------------- strings
\* char::to_lowercase restricted to the ASCII letters used by the model
LowerChar(c) ==
    CASE c = "B" -> "b" [] c = "T" -> "t" [] c = "C" -> "c"
      [] c = "E" -> "e" [] c = "H" -> "h" [] c = "U" -> "u"
      [] c = "S" -> "s" [] c = "D" -> "d"
      [] OTHER -> c

\* str::to_lowercase
to_lowercase(s) == [i \in DOMAIN s |-> LowerChar(s[i])]

btc == <<"b", "t", "c">>
eth == <<"e", "t", "h">>
usdt == <<"u", "s", "d", "t">>
BTCUSDT == <<"B", "T", "C", "U", "S", "D", "T">>
ETHUSDT == <<"E", "T", "H", "U", "S", "D", "T">>
aggTrade == <<"a", "g", "g", "T", "r", "a", "d", "e">>
AtAggTrade == <<"@">> \o aggTrade
tradeEvent == <<"t", "r", "a", "d", "e">>
EXCHANGE == "binance_futures"

\* ------------------------------------------------------------- data model
\* Symbol::new lowercases its input
Symbol(s) == to_lowercase(s)

\* Instrument { base, quote, kind }
Instrument(base, quote, kind) ==
    [base |-> Symbol(base), quote |-> Symbol(quote), kind |-> kind]

NoInstrument == [base |-> <<>>, quote |-> <<>>, kind |-> "none"]

\* Subscription::Trades(instrument)
Trades(instrument) == [variant |-> "Trades", instrument |-> instrument]

\* StreamMeta::new: the sequence starts at 0
StreamMetaNew(subscription) == [sequence |-> 0, subscription |-> subscription]

\* BinanceFutures::new: no stream registered
BinanceFuturesNew == <<>>

\* get_stream_id naming the channel "{base}{quote}@trade"
get_stream_id_trade(subscription) ==
    subscription.instrument.base \o subscription.instrument.quote
        \o <<"@">> \o tradeEvent

\* BinanceFutures::get_stream_id: "{base}{quote}@aggTrade"
get_stream_id(subscription) ==
    subscription.instrument.base \o subscription.instrument.quote \o AtAggTrade

\* BinanceTrade::to_stream_id: "{symbol.to_lowercase()}@{event_type}"
to_stream_id(trade) == to_lowercase(trade.symbol) \o <<"@">> \o trade.event_type

\* HashMap::insert on the streams map (a function from StreamId to StreamMeta)
MapInsert(map, key, value) ==
    [k \in (DOMAIN map) \cup {key} |-> IF k = key THEN value ELSE map[k]]

\* ------------------------------------------------------------ JSON payloads
\* A payload is the JSON text of a frame, described by what serde reads of
\* it: whether it is well-formed JSON, whether it has a u32 "id", what its
\* "result" is, and whether it has the BinanceTrade fields e,s,T,a,p,q,m
\* (every trade of the model has "q": "1").  utf8 says whether the bytes of
\* the payload are valid UTF-8; the payloads built here are.
Payload(wellformed, hasId, result, hasTrade, s, e, a) ==
    [wellformed |-> wellformed, hasId |-> hasId, result |-> result,
     hasTrade |-> hasTrade, s |-> s, e |-> e, a |-> a,
     q |-> IF hasTrade THEN 1 ELSE 0, utf8 |-> TRUE]

NoPayload == Payload(FALSE, FALSE, "absent", FALSE, <<>>, <<>>, 0)
TradeJson(s, e, a) == Payload(TRUE, FALSE, "absent", TRUE, s, e, a)
SubscribedJson(result) == Payload(TRUE, TRUE, result, FALSE, <<>>, <<>>, 0)
GarbageJson == Payload(FALSE, FALSE, "absent", FALSE, <<>>, <<>>, 1)
UnknownObjectJson == Payload(TRUE, FALSE, "absent", FALSE, <<>>, <<>>, 2)

\* Bytes that are not UTF-8 (and so not JSON)
InvalidUtf8 == [GarbageJson EXCEPT !.utf8 = FALSE]
\* The Display text of a FromUtf8Error, "invalid utf-8 sequence of ..."
FromUtf8ErrorText == Payload(FALSE, FALSE, "absent", FALSE, <<>>, <<>>, 3)

NoMessage == [variant |-> "none", result |-> "none", symbol |-> <<>>,
              event_type |-> <<>>, id |-> 0]

\* serde_json::from_str::<BinanceMessage>: the enum is untagged, so the
\* variants are tried in declaration order: Subscribed {result: Option, id: u32}
\* then Trade; an Option field may be absent, unknown fields are ignored.
Deserialise(payload) ==
    IF ~payload.wellformed THEN [ok |-> FALSE, msg |-> NoMessage]
    ELSE IF payload.hasId /\ payload.result \in {"absent", "null", "list"}
    THEN [ok |-> TRUE,
          msg |-> [variant |-> "Subscribed",
                   result |-> IF payload.result = "list" THEN "Some" ELSE "None",
                   symbol |-> <<>>, event_type |-> <<>>, id |-> 0]]
    ELSE IF payload.hasTrade
    THEN [ok |-> TRUE,
          msg |-> [variant |-> "Trade", result |-> "none",
                   symbol |-> payload.s, event_type |-> payload.e,
                   id |-> payload.a]]
    ELSE [ok |-> FALSE, msg |-> NoMessage]

\* -------------------------------------------------------------- stream items
\* Result<MarketEvent, SocketError>, in one record shape
OkItem(sequence, instrument, id) ==
    [tag |-> "Ok", kind |-> "Trade", sequence |-> sequence,
     instrument |-> instrument, id |-> id, stream_id |-> <<>>,
     payload |-> NoPayload, volume |-> 0]

ErrItem(kind, stream_id, payload) ==
    [tag |-> "Err", kind |-> kind, sequence |-> 0, instrument |-> NoInstrument,
     id |-> 0, stream_id |-> stream_id, payload |-> payload, volume |-> 0]

\* Option<Result<ExchangeMessage, SocketError>>
ParseNone == [opt |-> "None", ok |-> FALSE, msg |-> NoMessage,
              err |-> ErrItem("none", <<>>, NoPayload)]
ParseOk(msg) == [opt |-> "Some", ok |-> TRUE, msg |-> msg,
                 err |-> ErrItem("none", <<>>, NoPayload)]
ParseErr(err) == [opt |-> "Some", ok |-> FALSE, msg |-> NoMessage, err |-> err]


\* ------------------------------------------------------------------- frames
\* StreamItem = Result<WsMessage, WsError>
Frame(kind, payload) == [kind |-> kind, payload |-> payload]

\* The frames the transport may deliver
FrameSet ==
    { Frame("Text", TradeJson(BTCUSDT, aggTrade, 1)),
      Frame("Binary", TradeJson(ETHUSDT, aggTrade, 2)),
      Frame("Text", SubscribedJson("null")),
      Frame("Text", SubscribedJson("list")),
      Frame("Text", GarbageJson),
      Frame("Binary", UnknownObjectJson),
      Frame("Ping", NoPayload),
      Frame("Pong", NoPayload),
      Frame("Close", NoPayload),
      Frame("Error", NoPayload) }

\* The subscription lists a caller may pass to init
SubscriptionLists ==
    { <<Trades(Instrument(btc, usdt, "FuturePerpetual"))>>,
      <<Trades(Instrument(btc, usdt, "FuturePerpetual")),
        Trades(Instrument(eth, usdt, "FuturePerpetual"))>> }

\* ------------------------------------------------------------ WebSocketParser
\* process_text with a failed deserialisation treated as a frame to skip
process_text_skip(payload) ==
    LET de == Deserialise(payload)
    IN  IF de.ok THEN ParseOk(de.msg) ELSE ParseNone

\* process_text: Some(Ok(message)) or Some(Err(Serde { error, payload }))
process_text(payload) ==
    LET de == Deserialise(payload)
    IN  IF de.ok THEN ParseOk(de.msg)
        ELSE ParseErr(ErrItem("Serde", <<>>, payload))

\* String::from_utf8(payload).unwrap_or_else(|x| x.to_string()): the payload
\* as a String when its bytes are UTF-8, otherwise the text of the
\* FromUtf8Error
from_utf8_or_error(payload) ==
    IF payload.utf8 THEN payload ELSE FromUtf8ErrorText

\* process_binary: serde_json::from_slice on the bytes; the error carries
\* the String made of the payload
process_binary(payload) ==
    LET de == Deserialise(payload)
    IN  IF de.ok THEN ParseOk(de.msg)
        ELSE ParseErr(ErrItem("Serde", <<>>, from_utf8_or_error(payload)))

\* process_ping reporting the ping as an error item
process_ping_err(ping) == ParseErr(ErrItem("Terminated", <<>>, NoPayload))

\* process_ping: logs and returns None
process_ping(ping) == ParseNone

\* process_pong: logs and returns None
process_pong(pong) == ParseNone

\* process_close_frame skipping the close frame
process_close_frame_skip(close_frame) == ParseNone

\* process_close_frame: Some(Err(Terminated(..)))
process_close_frame(close_frame) ==
    ParseErr(ErrItem("Terminated", <<>>, NoPayload))

\* WebSocketParser::parse
parse(input) ==
    CASE input.kind = "Text" -> process_text(input.payload)
      [] input.kind = "Binary" -> process_binary(input.payload)
      [] input.kind = "Ping" -> process_ping(input.payload)
      [] input.kind = "Pong" -> process_pong(input.payload)
      [] input.kind = "Close" -> process_close_frame(input.payload)
      [] input.kind = "Error" -> ParseErr(ErrItem("WebSocket", <<>>, NoPayload))

\* ------------------------------------------------------------- BinanceFutures
\* get_stream_meta returning the sequence read after the increment
get_stream_meta_postinc(streams, stream_id) ==
    IF stream_id \in DOMAIN streams
    THEN [ok |-> TRUE,
          instrument |-> streams[stream_id].subscription.instrument,
          sequence |-> streams[stream_id].sequence + 1,
          streams |-> [streams EXCEPT ![stream_id].sequence = @ + 1],
          err |-> ErrItem("none", <<>>, NoPayload)]
    ELSE [ok |-> FALSE, instrument |-> NoInstrument, sequence |-> 0,
          streams |-> streams,
          err |-> ErrItem("Unidentifiable", stream_id, NoPayload)]

\* get_stream_meta registering an unknown stream id on a miss
\* (entry().or_insert) while still reporting it
get_stream_meta_insert(streams, stream_id) ==
    IF stream_id \in DOMAIN streams
    THEN [ok |-> TRUE,
          instrument |-> streams[stream_id].subscription.instrument,
          sequence |-> streams[stream_id].sequence,
          streams |-> [streams EXCEPT ![stream_id].sequence = @ + 1],
          err |-> ErrItem("none", <<>>, NoPayload)]
    ELSE [ok |-> FALSE, instrument |-> NoInstrument, sequence |-> 0,
          streams |-> MapInsert(streams, stream_id,
                                StreamMetaNew(Trades(NoInstrument))),
          err |-> ErrItem("Unidentifiable", stream_id, NoPayload)]

\* get_stream_meta adding one to the sequence of every registered stream
get_stream_meta_all(streams, stream_id) ==
    IF stream_id \in DOMAIN streams
    THEN [ok |-> TRUE,
          instrument |-> streams[stream_id].subscription.instrument,
          sequence |-> streams[stream_id].sequence,
          streams |-> [id \in DOMAIN streams |->
                          [streams[id] EXCEPT !.sequence = @ + 1]],
          err |-> ErrItem("none", <<>>, NoPayload)]
    ELSE [ok |-> FALSE, instrument |-> NoInstrument, sequence |-> 0,
          streams |-> streams,
          err |-> ErrItem("Unidentifiable", stream_id, NoPayload)]

\* BinanceFutures::get_stream_meta: on a hit return (instrument, sequence)
\* read before the increment, and add one to the stored sequence; on a miss
\* return Unidentifiable(stream_id) and leave the map alone.
get_stream_meta(streams, stream_id) ==
    IF stream_id \in DOMAIN streams
    THEN [ok |-> TRUE,
          instrument |-> streams[stream_id].subscription.instrument,
          sequence |-> streams[stream_id].sequence,
          streams |-> [streams EXCEPT ![stream_id].sequence = @ + 1],
          err |-> ErrItem("none", <<>>, NoPayload)]
    ELSE [ok |-> FALSE, instrument |-> NoInstrument, sequence |-> 0,
          streams |-> streams,
          err |-> ErrItem("Unidentifiable", stream_id, NoPayload)]

\* transform with the confirmation test inverted (result.is_none() is the error)
transform_inverted(streams, input) ==
    IF input.variant = "Subscribed"
    THEN IF input.result = "None"
         THEN [ok |-> FALSE, iter |-> <<>>, streams |-> streams,
               err |-> ErrItem("Subscribe", <<>>, NoPayload)]
         ELSE [ok |-> TRUE, iter |-> <<>>, streams |-> streams,
               err |-> ErrItem("none", <<>>, NoPayload)]
    ELSE LET meta == get_stream_meta(streams, to_stream_id(input))
         IN  IF meta.ok
             THEN [ok |-> TRUE,
                   iter |-> <<OkItem(meta.sequence, meta.instrument, input.id)>>,
                   streams |-> meta.streams,
                   err |-> ErrItem("none", <<>>, NoPayload)]
             ELSE [ok |-> FALSE, iter |-> <<>>, streams |-> meta.streams,
                   err |-> meta.err]

\* transform reporting every confirmation as a Subscribe error (no test of
\* result at all)
transform_confirm_err(streams, input) ==
    IF input.variant = "Subscribed"
    THEN [ok |-> FALSE, iter |-> <<>>, streams |-> streams,
          err |-> ErrItem("Subscribe", <<>>, NoPayload)]
    ELSE LET meta == get_stream_meta(streams, to_stream_id(input))
         IN  IF meta.ok
             THEN [ok |-> TRUE,
                   iter |-> <<OkItem(meta.sequence, meta.instrument, input.id)>>,
                   streams |-> meta.streams,
                   err |-> ErrItem("none", <<>>, NoPayload)]
             ELSE [ok |-> FALSE, iter |-> <<>>, streams |-> meta.streams,
                   err |-> meta.err]

\* BinanceFutures::transform: Result<option::IntoIter<MarketEvent>, SocketError>
transform(streams, input) ==
    IF input.variant = "Subscribed"
    THEN IF input.result = "Some"
         THEN [ok |-> FALSE, iter |-> <<>>, streams |-> streams,
               err |-> ErrItem("Subscribe", <<>>, NoPayload)]
         ELSE [ok |-> TRUE, iter |-> <<>>, streams |-> streams,
               err |-> ErrItem("none", <<>>, NoPayload)]
    ELSE LET meta == get_stream_meta(streams, to_stream_id(input))
         IN  IF meta.ok
             THEN [ok |-> TRUE,
                   iter |-> <<OkItem(meta.sequence, meta.instrument, input.id)>>,
                   streams |-> meta.streams,
                   err |-> ErrItem("none", <<>>, NoPayload)]
             ELSE [ok |-> FALSE, iter |-> <<>>, streams |-> meta.streams,
                   err |-> meta.err]

\* Transformer::OutputIter, an IntoIterator<Item = Result<Output, SocketError>>:
\* the events of an Ok result in production order, or the one error.
OutputIter(result) == IF result.ok THEN result.iter ELSE <<result.err>>

\* generate_subscriptions registering nothing
RegisterNone(streams, subscriptions) == streams

\* BinanceFutures::generate_subscriptions, the map side: every subscription's
\* channel is inserted with a fresh StreamMeta, in list order.
RECURSIVE RegisterAll(_, _)
RegisterAll(streams, subscriptions) ==
    IF subscriptions = <<>> THEN streams
    ELSE RegisterAll(MapInsert(streams,
                               get_stream_id(Head(subscriptions)),
                               StreamMetaNew(Head(subscriptions))),
                     Tail(subscriptions))

\* BinanceFutures::generate_subscriptions, the payload side: one SUBSCRIBE
\* message naming every channel.
SubscribePayloads(subscriptions) ==
    << [method |-> "SUBSCRIBE",
        params |-> [i \in DOMAIN subscriptions |-> get_stream_id(subscriptions[i])],
        id |-> 1] >>

\* -------------------------------------------------------------- ExchangeSocket
\* The transport's Stream::poll_next: a frame when one has arrived, the end
\* of the stream when the transport is exhausted, otherwise Pending.
SocketPollNext(inbox, exhausted) ==
    IF inbox # <<>> THEN "Ready"
    ELSE IF exhausted THEN "End" ELSE "Pending"

\* poll_next swallowing a parser error instead of passing it downstream
RECURSIVE PollNextLoopLossy(_)
PollNextLoopLossy(s) ==
    IF s.buffer # <<>>
    THEN [s EXCEPT !.buffer = Tail(s.buffer), !.ret = "Item",
                   !.item = Head(s.buffer)]
    ELSE LET polled == SocketPollNext(s.inbox, s.exhausted)
         IN  CASE polled = "End" ->
                    [s EXCEPT !.ret = "End", !.transport = "End"]
               [] polled = "Pending" ->
                    [s EXCEPT !.ret = "Pending", !.transport = "Pending",
                              !.waker = TRUE]
               [] polled = "Ready" ->
                    LET input == Head(s.inbox)
                        t == [s EXCEPT !.inbox = Tail(s.inbox),
                                       !.transport = "Ready",
                                       !.nread = @ + 1]
                        parsed == parse(input)
                    IN  IF parsed.opt = "None" \/ ~parsed.ok
                        THEN [t EXCEPT !.ret = "Pending"]
                        ELSE LET out == transform(t.streams, parsed.msg)
                             IN  PollNextLoopLossy(
                                   [t EXCEPT !.streams = out.streams,
                                             !.buffer = @ \o OutputIter(out)])

\* poll_next taking every frame that has arrived before it drains the buffer
RECURSIVE PollNextLoopEager(_)
PollNextLoopEager(s) ==
    IF s.buffer # <<>> /\ s.inbox = <<>>
    THEN [s EXCEPT !.buffer = Tail(s.buffer), !.ret = "Item",
                   !.item = Head(s.buffer)]
    ELSE LET polled == SocketPollNext(s.inbox, s.exhausted)
         IN  CASE polled = "End" ->
                    [s EXCEPT !.ret = "End", !.transport = "End"]
               [] polled = "Pending" ->
                    [s EXCEPT !.ret = "Pending", !.transport = "Pending",
                              !.waker = TRUE]
               [] polled = "Ready" ->
                    LET input == Head(s.inbox)
                        t == [s EXCEPT !.inbox = Tail(s.inbox),
                                       !.transport = "Ready",
                                       !.nread = @ + 1]
                        parsed == parse(input)
                    IN  IF parsed.opt = "None"
                        THEN [t EXCEPT !.ret = "Pending"]
                        ELSE IF ~parsed.ok
                        THEN [t EXCEPT !.ret = "Item", !.item = parsed.err]
                        ELSE LET out == transform(t.streams, parsed.msg)
                             IN  PollNextLoopEager(
                                   [t EXCEPT !.streams = out.streams,
                                             !.buffer = @ \o OutputIter(out)])

\* poll_next reporting the end of the stream for a frame the parser skips
RECURSIVE PollNextLoopSkipEnds(_)
PollNextLoopSkipEnds(s) ==
    IF s.buffer # <<>>
    THEN [s EXCEPT !.buffer = Tail(s.buffer), !.ret = "Item",
                   !.item = Head(s.buffer)]
    ELSE LET polled == SocketPollNext(s.inbox, s.exhausted)
         IN  CASE polled = "End" ->
                    [s EXCEPT !.ret = "End", !.transport = "End"]
               [] polled = "Pending" ->
                    [s EXCEPT !.ret = "Pending", !.transport = "Pending",
                              !.waker = TRUE]
               [] polled = "Ready" ->
                    LET input == Head(s.inbox)
                        t == [s EXCEPT !.inbox = Tail(s.inbox),
                                       !.transport = "Ready",
                                       !.nread = @ + 1]
                        parsed == parse(input)
                    IN  IF parsed.opt = "None"
                        THEN [t EXCEPT !.ret = "End"]
                        ELSE IF ~parsed.ok
                        THEN [t EXCEPT !.ret = "Item", !.item = parsed.err]
                        ELSE LET out == transform(t.streams, parsed.msg)
                             IN  PollNextLoopSkipEnds(
                                   [t EXCEPT !.streams = out.streams,
                                             !.buffer = @ \o OutputIter(out)])

\* ExchangeSocket::poll_next, the loop of one call.  s holds the fields the
\* call reads and writes; the result adds what the call returned (ret, item),
\* the outcome of its last poll of the transport and the number of frames it
\* took from the transport.
RECURSIVE PollNextLoop(_)
PollNextLoop(s) ==
    IF s.buffer # <<>>
    THEN [s EXCEPT !.buffer = Tail(s.buffer), !.ret = "Item",
                   !.item = Head(s.buffer)]
    ELSE LET polled == SocketPollNext(s.inbox, s.exhausted)
         IN  CASE polled = "End" ->
                    [s EXCEPT !.ret = "End", !.transport = "End"]
               [] polled = "Pending" ->
                    [s EXCEPT !.ret = "Pending", !.transport = "Pending",
                              !.waker = TRUE]
               [] polled = "Ready" ->
                    LET input == Head(s.inbox)
                        t == [s EXCEPT !.inbox = Tail(s.inbox),
                                       !.transport = "Ready",
                                       !.nread = @ + 1]
                        parsed == parse(input)
                    IN  IF parsed.opt = "None"
                        THEN [t EXCEPT !.ret = "Pending"]
                        ELSE IF ~parsed.ok
                        THEN [t EXCEPT !.ret = "Item", !.item = parsed.err]
                        ELSE LET out == transform(t.streams, parsed.msg)
                             IN  PollNextLoop(
                                   [t EXCEPT !.streams = out.streams,
                                             !.buffer = @ \o OutputIter(out)])

\* ------------------------------------- examples/simple_websocket_integration
\* Ok(VolumeSum), the example's output
VolumeItem(volume) ==
    [tag |-> "Ok", kind |-> "VolumeSum", sequence |-> 0,
     instrument |-> NoInstrument, id |-> 0, stream_id |-> <<>>,
     payload |-> NoPayload, volume |-> volume]

NoExampleMessage == [variant |-> "none", quantity |-> 0]

\* serde_json::from_str for the example's untagged BinanceMessage:
\* SubResponse {result: Option, id: u32}, then Trade {q}
DeserialiseExample(payload) ==
    IF ~payload.wellformed THEN [ok |-> FALSE, msg |-> NoExampleMessage]
    ELSE IF payload.hasId /\ payload.result \in {"absent", "null", "list"}
    THEN [ok |-> TRUE, msg |-> [variant |-> "SubResponse", quantity |-> 0]]
    ELSE IF payload.hasTrade
    THEN [ok |-> TRUE, msg |-> [variant |-> "Trade", quantity |-> payload.q]]
    ELSE [ok |-> FALSE, msg |-> NoExampleMessage]

\* WebSocketParser::parse::<BinanceMessage of the example>
parse_example(input) ==
    IF input.kind \in {"Text", "Binary"}
    THEN LET de == DeserialiseExample(input.payload)
         IN  IF de.ok
             THEN [opt |-> "Some", ok |-> TRUE, msg |-> de.msg,
                   err |-> ErrItem("none", <<>>, NoPayload)]
             ELSE [opt |-> "Some", ok |-> FALSE, msg |-> NoExampleMessage,
                   err |-> ErrItem("Serde", <<>>, input.payload)]
    ELSE [opt |-> parse(input).opt, ok |-> FALSE, msg |-> NoExampleMessage,
          err |-> parse(input).err]

\* StatefulTransformer::transform: a Trade adds its quantity to the sum, a
\* SubResponse is ignored; either way the result is vec![Ok(sum_of_volume)].
StatefulTransform(sum, input) ==
    LET new == IF input.variant = "Trade" THEN sum + input.quantity ELSE sum
    IN  [sum_of_volume |-> new, iter |-> <<VolumeItem(new)>>]

\* ExchangeSocket::poll_next instantiated with the example's transformer;
\* s.streams holds the transformer's sum_of_volume.
RECURSIVE PollNextLoopExample(_)
PollNextLoopExample(s) ==
    IF s.buffer # <<>>
    THEN [s EXCEPT !.buffer = Tail(s.buffer), !.ret = "Item",
                   !.item = Head(s.buffer)]
    ELSE LET polled == SocketPollNext(s.inbox, s.exhausted)
         IN  CASE polled = "End" ->
                    [s EXCEPT !.ret = "End", !.transport = "End"]
               [] polled = "Pending" ->
                    [s EXCEPT !.ret = "Pending", !.transport = "Pending",
                              !.waker = TRUE]
               [] polled = "Ready" ->
                    LET input == Head(s.inbox)
                        t == [s EXCEPT !.inbox = Tail(s.inbox),
                                       !.transport = "Ready",
                                       !.nread = @ + 1]
                        parsed == parse_example(input)
                    IN  IF parsed.opt = "None"
                        THEN [t EXCEPT !.ret = "Pending"]
                        ELSE IF ~parsed.ok
                        THEN [t EXCEPT !.ret = "Item", !.item = parsed.err]
                        ELSE LET out == StatefulTransform(t.streams, parsed.msg)
                             IN  PollNextLoopExample(
                                   [t EXCEPT !.streams = out.sum_of_volume,
                                             !.buffer = @ \o out.iter])

\* ------------------------------------------------------------ model types
\* Display for InstrumentKind
KindDisplay(kind) ==
    CASE kind = "Spot" -> <<"s", "p", "o", "t">>
      [] kind = "FuturePerpetual" ->
           <<"f", "u", "t", "u", "r", "e", "_",
             "p", "e", "r", "p", "e", "t", "u", "a", "l">>

\* Exchange::from: the name as given
Exchange(name) == name

\* Market::new
Market(exchange, instrument) == [exchange |-> exchange, instrument |-> instrument]

\* MarketId::new: format!("{}_{}_{}_{}", exchange, base, quote, kind).to_lowercase()
MarketIdNew(exchange, instrument) ==
    to_lowercase(exchange \o <<"_">> \o instrument.base \o <<"_">>
                 \o instrument.quote \o <<"_">> \o KindDisplay(instrument.kind))

\* A JSON object read by serde is described by what each field of interest
\* holds: nothing (the field is absent), a number, or a string.
JsonAbsent == [t |-> "absent", s |-> <<>>]
JsonNumber == [t |-> "number", s |-> <<>>]
JsonString(s) == [t |-> "string", s |-> s]

NoMarket == Market(<<>>, NoInstrument)

\* impl From<S> for Symbol: Symbol::new(input)
SymbolFrom(input) == Symbol(input)

\* Deserialising a Symbol as the String it wraps, case kept
DeSymbolRaw(v) ==
    IF v.t = "string" THEN [ok |-> TRUE, value |-> v.s]
    ELSE [ok |-> FALSE, value |-> <<>>]

\* impl Deserialize for Symbol: String::deserialize(..).map(Symbol::new)
DeSymbol(v) ==
    IF v.t = "string" THEN [ok |-> TRUE, value |-> Symbol(v.s)]
    ELSE [ok |-> FALSE, value |-> <<>>]

\* Deserialising an unknown or missing instrument_type as the Default, Spot
DeInstrumentKindDefault(v) ==
    IF v = JsonString(<<"f", "u", "t", "u", "r", "e", "_",
                        "p", "e", "r", "p", "e", "t", "u", "a", "l">>)
    THEN [ok |-> TRUE, value |-> "FuturePerpetual"]
    ELSE [ok |-> TRUE, value |-> "Spot"]

\* #[derive(Deserialize)] #[serde(rename_all = "snake_case")] InstrumentKind
DeInstrumentKind(v) ==
    IF v = JsonString(<<"s", "p", "o", "t">>)
    THEN [ok |-> TRUE, value |-> "Spot"]
    ELSE IF v = JsonString(<<"f", "u", "t", "u", "r", "e", "_",
                             "p", "e", "r", "p", "e", "t", "u", "a", "l">>)
    THEN [ok |-> TRUE, value |-> "FuturePerpetual"]
    ELSE [ok |-> FALSE, value |-> "none"]

\* #[derive(Deserialize)] Exchange(Cow<'static, str>)
DeExchange(v) ==
    IF v.t = "string" THEN [ok |-> TRUE, value |-> Exchange(v.s)]
    ELSE [ok |-> FALSE, value |-> <<>>]

\* #[derive(Deserialize)] Instrument {base, quote, instrument_type}: every
\* field is required
DeInstrument(json) ==
    LET base == DeSymbol(json.base)
        quote == DeSymbol(json.quote)
        kind == DeInstrumentKind(json.instrument_type)
    IN  IF base.ok /\ quote.ok /\ kind.ok
        THEN [ok |-> TRUE, value |-> Instrument(base.value, quote.value, kind.value)]
        ELSE [ok |-> FALSE, value |-> NoInstrument]

\* #[derive(Deserialize)] Market {exchange, #[serde(flatten)] instrument}
DeMarket(json) ==
    LET exchange == DeExchange(json.exchange)
        instrument == DeInstrument(json)
    IN  IF exchange.ok /\ instrument.ok
        THEN [ok |-> TRUE, value |-> Market(exchange.value, instrument.value)]
        ELSE [ok |-> FALSE, value |-> NoMarket]

\* ---------------------------------------------------------------------- state
VARIABLES
    pc,         \* position of MarketStream::init / the stream's lifetime
    streams,    \* BinanceFutures.streams: StreamId -> StreamMeta
    outbox,     \* subscription payloads init has still to send
    sent,       \* payloads written to the transport
    buffer,     \* ExchangeSocket.buffer
    inbox,      \* frames the transport has received and not yet handed over
    exhausted,  \* the transport has reached the end of its stream
    waker,      \* the transport holds a waker of the driving task
    task,       \* the driving task: runnable, suspended or done
    read,       \* history: the frames poll_next has taken, in order
    pulled,     \* history: the items poll_next has returned, in order
    last,       \* history: outcome of the latest poll_next call
    sum_of_volume, \* StatefulTransformer.sum_of_volume (the example's transformer)
    channel,    \* events in the exchange's unbounded mpsc channel
    rx_open,    \* the consumer still holds the channel's receiver
    send_failed, \* history: number of stream_tx.send calls that returned Err
    parse_calls, \* history: the calls of WebSocketParser::parse made directly
    received,   \* history: the events the consumer has received, in order
    rx_closed,  \* the consumer's recv() has returned None
    sink_calls, \* history: the Sink calls made on the socket and their results
    calls,      \* history: calls of the model types' functions and results
    config,     \* StreamBuilder.config: Exchange -> Vec<StreamConfig>
    adds,       \* history: the StreamBuilder::add calls made, in order
    exchange_streams, \* build's map Exchange -> UnboundedReceiver
    spawned,    \* the exchanges whose forwarding task tokio::spawn started
    build_ret,  \* what StreamBuilder::build returned
    rest_pc,    \* position of RestClient::execute
    rest_log,   \* history: the steps execute has taken, in order
    response,   \* the reqwest::Response measured_execution received
    metrics,    \* the Metrics in the metric channel
    metric_rx_open, \* the metric channel's receiver still exists
    rest_ret    \* what RestClient::execute returned

vars == <<pc, streams, outbox, sent, buffer, inbox, exhausted, waker, task,
          read, pulled, last, sum_of_volume, channel, rx_open, send_failed,
          parse_calls, received, rx_closed, sink_calls, calls, config, adds,
          exchange_streams, spawned, build_ret, rest_pc, rest_log, response,
          metrics, metric_rx_open, rest_ret>>

\* The state of a StreamBuilder and of its build call
builder == <<config, adds, exchange_streams, spawned, build_ret>>

\* The state of a RestClient and of its execute call
rest == <<rest_pc, rest_log, response, metrics, metric_rx_open, rest_ret>>

\* The state outside one ExchangeSocket and its BinanceFutures transformer
others == <<sum_of_volume, channel, rx_open, send_failed, parse_calls,
            received, rx_closed, sink_calls, calls, builder, rest>>

\* The stream exists and is being pulled: by a task of this crate
\* ("running") or by the example's main ("example").
Running == pc \in {"running", "example"}

NoItem == ErrItem("none", <<>>, NoPayload)

\* No StreamBuilder exists
NoBuilder ==
    /\ config = <<>>
    /\ adds = <<>>
    /\ exchange_streams = <<>>
    /\ spawned = {}
    /\ build_ret = "none"

\* An HTTP body: whether it is JSON at all, the fields of its top-level
\* object and the text of its error message
Body(wellformed, fields, message) ==
    [wellformed |-> wellformed, fields |-> fields, message |-> message]

NoBody == Body(FALSE, {}, "none")

NoResponse == [status |-> 0, payload |-> NoBody]

\* execute has not returned
NoResult == [tag |-> "none"]

\* No RestClient exists
NoRest ==
    /\ rest_pc = "none"
    /\ rest_log = <<>>
    /\ response = NoResponse
    /\ metrics = <<>>
    /\ metric_rx_open = TRUE
    /\ rest_ret = NoResult

Init ==
    /\ pc = "start"
    /\ streams = BinanceFuturesNew
    /\ outbox = <<>>
    /\ sent = <<>>
    /\ buffer = <<>>
    /\ inbox = <<>>
    /\ exhausted = FALSE
    /\ waker = FALSE
    /\ task = "runnable"
    /\ read = <<>>
    /\ pulled = <<>>
    /\ last = [ret |-> "none", transport |-> "none", item |-> NoItem, nread |-> 0]
    /\ sum_of_volume = 0
    /\ channel = <<>>
    /\ rx_open = TRUE
    /\ send_failed = 0
    /\ parse_calls = <<>>
    /\ received = <<>>
    /\ rx_closed = FALSE
    /\ sink_calls = <<>>
    /\ calls = <<>>
    /\ NoBuilder
    /\ NoRest

\* init: connect(BASE_URL).await? succeeds
Connect ==
    /\ pc = "start"
    /\ pc' = "connected"
    /\ UNCHANGED <<streams, outbox, sent, buffer, inbox, exhausted, waker,
                   task, read, pulled, last>>
    /\ UNCHANGED others

\* init: connect(BASE_URL).await? fails and init returns the error
ConnectFail ==
    /\ pc = "start"
    /\ pc' = "failed"
    /\ UNCHANGED <<streams, outbox, sent, buffer, inbox, exhausted, waker,
                   task, read, pulled, last>>
    /\ UNCHANGED others

\* init: exchange.generate_subscriptions(subscriptions)
GenerateSubscriptions(subscriptions) ==
    /\ pc = "connected"
    /\ streams' = RegisterAll(streams, subscriptions)
    /\ outbox' = SubscribePayloads(subscriptions)
    /\ pc' = "subscribing"
    /\ UNCHANGED <<sent, buffer, inbox, exhausted, waker, task, read, pulled,
                   last>>
    /\ UNCHANGED others

\* A further exchange.generate_subscriptions(subscriptions) on the
\* transformer of a live socket (ExchangeSocket's transformer field and the
\* method are public); the payloads it returns are not sent here.
Resubscribe(subscriptions) ==
    /\ pc = "running"
    /\ streams' = RegisterAll(streams, subscriptions)
    /\ UNCHANGED <<pc, outbox, sent, buffer, inbox, exhausted, waker, task,
                   read, pulled, last>>
    /\ UNCHANGED others

\* init: websocket.send(WsMessage::Text(sub_payload)).await? succeeds
SendSubscription ==
    /\ pc = "subscribing"
    /\ outbox # <<>>
    /\ sent' = Append(sent, Head(outbox))
    /\ outbox' = Tail(outbox)
    /\ UNCHANGED <<pc, streams, buffer, inbox, exhausted, waker, task, read,
                   pulled, last>>
    /\ UNCHANGED others

\* init: websocket.send(..).await? fails and init returns the error
SendSubscriptionFail ==
    /\ pc = "subscribing"
    /\ outbox # <<>>
    /\ pc' = "failed"
    /\ UNCHANGED <<streams, outbox, sent, buffer, inbox, exhausted, waker,
                   task, read, pulled, last>>
    /\ UNCHANGED others

\* init: Ok(ExchangeSocket::new(websocket, WebSocketParser, exchange))
New ==
    /\ pc = "subscribing"
    /\ outbox = <<>>
    /\ pc' = "running"
    /\ buffer' = <<>>
    /\ UNCHANGED <<streams, outbox, sent, inbox, exhausted, waker, task, read,
                   pulled, last>>
    /\ UNCHANGED others

\* The transport receives a frame; a registered waker is woken and consumed.
\* (A frame that arrives while init is still running waits in the transport
\* until the first poll, exactly as one that arrives right after it.)
Deliver(frame) ==
    /\ Running
    /\ ~exhausted
    /\ Len(read) + Len(inbox) < MaxFrames
    /\ inbox' = Append(inbox, frame)
    /\ waker' = FALSE
    /\ task' = IF waker THEN "runnable" ELSE task
    /\ UNCHANGED <<pc, streams, outbox, sent, buffer, exhausted, read, pulled,
                   last>>
    /\ UNCHANGED others

\* The transport reaches the end of its stream; a registered waker is woken.
Exhaust ==
    /\ Running
    /\ ~exhausted
    /\ exhausted' = TRUE
    /\ waker' = FALSE
    /\ task' = IF waker THEN "runnable" ELSE task
    /\ UNCHANGED <<pc, streams, outbox, sent, buffer, inbox, read, pulled,
                   last>>
    /\ UNCHANGED others

\* What stream.next().await does to the task that awaits it: an item keeps
\* the task running, Pending suspends it until a waker is woken, None ends
\* its while-let loop.
AfterNext(ret) ==
    CASE ret = "Item" -> "runnable"
      [] ret = "Pending" -> "suspended"
      [] ret = "End" -> "done"

\* One call of poll_next by the runnable task
PollNextCall ==
    /\ pc = "running"
    /\ task = "runnable"
    /\ LET r == PollNextLoop([buffer |-> buffer, streams |-> streams,
                              inbox |-> inbox, exhausted |-> exhausted,
                              waker |-> waker, ret |-> "none",
                              transport |-> "none", item |-> NoItem,
                              nread |-> 0])
       IN  /\ buffer' = r.buffer
           /\ streams' = r.streams
           /\ inbox' = r.inbox
           /\ waker' = r.waker
           /\ read' = read \o SubSeq(inbox, 1, r.nread)
           /\ pulled' = IF r.ret = "Item" THEN Append(pulled, r.item) ELSE pulled
           /\ last' = [ret |-> r.ret, transport |-> r.transport,
                       item |-> r.item, nread |-> r.nread]
    /\ UNCHANGED <<pc, outbox, sent, exhausted>>

\* A driver that only pulls: the item goes to the caller of next()
PollNext ==
    /\ PollNextCall
    /\ task' = AfterNext(last'.ret)
    /\ UNCHANGED others

\* The body of consume's loop for one pulled item: an Ok item is sent on
\* stream_tx and the result of send is discarded (a send on an unbounded
\* channel fails only when the receiver is gone); an Err item is logged and
\* the loop continues.  Neither arm leaves the loop.  channel holds the
\* events send accepted, send_failed counts the sends that failed.
ForwardBreakOnErr(tx, open, failed, ret, item) ==
    IF ret = "Item" /\ item.tag = "Ok"
    THEN IF open
         THEN [channel |-> Append(tx, item), send_failed |-> failed, exit |-> FALSE]
         ELSE [channel |-> tx, send_failed |-> failed + 1, exit |-> FALSE]
    ELSE [channel |-> tx, send_failed |-> failed, exit |-> ret = "Item"]

\* The loop body sending on a channel of capacity 1: the task stops at a
\* send that finds the channel full
ForwardBounded(tx, open, failed, ret, item) ==
    IF ret = "Item" /\ item.tag = "Ok"
    THEN IF open
         THEN IF tx = <<>>
              THEN [channel |-> <<item>>, send_failed |-> failed, exit |-> FALSE]
              ELSE [channel |-> tx, send_failed |-> failed, exit |-> TRUE]
         ELSE [channel |-> tx, send_failed |-> failed + 1, exit |-> FALSE]
    ELSE [channel |-> tx, send_failed |-> failed, exit |-> FALSE]

\* The loop body putting the newest event at the head of the channel
ForwardFront(tx, open, failed, ret, item) ==
    IF ret = "Item" /\ item.tag = "Ok"
    THEN IF open
         THEN [channel |-> <<item>> \o tx, send_failed |-> failed, exit |-> FALSE]
         ELSE [channel |-> tx, send_failed |-> failed + 1, exit |-> FALSE]
    ELSE [channel |-> tx, send_failed |-> failed, exit |-> FALSE]

\* The loop body sending error items on the channel as well
ForwardAll(tx, open, failed, ret, item) ==
    IF ret = "Item"
    THEN IF open
         THEN [channel |-> Append(tx, item), send_failed |-> failed, exit |-> FALSE]
         ELSE [channel |-> tx, send_failed |-> failed + 1, exit |-> FALSE]
    ELSE [channel |-> tx, send_failed |-> failed, exit |-> FALSE]

Forward(tx, open, failed, ret, item) ==
    IF ret = "Item" /\ item.tag = "Ok"
    THEN IF open
         THEN [channel |-> Append(tx, item), send_failed |-> failed, exit |-> FALSE]
         ELSE [channel |-> tx, send_failed |-> failed + 1, exit |-> FALSE]
    ELSE [channel |-> tx, send_failed |-> failed, exit |-> FALSE]

\* The task spawned by consume: one turn of its while-let loop
Consume ==
    /\ PollNextCall
    /\ LET fwd == Forward(channel, rx_open, send_failed, last'.ret, last'.item)
       IN  /\ channel' = fwd.channel
           /\ send_failed' = fwd.send_failed
           /\ task' = IF fwd.exit THEN "done" ELSE AfterNext(last'.ret)
    /\ UNCHANGED <<sum_of_volume, rx_open, parse_calls, received, rx_closed,
                   sink_calls, calls>>
    /\ UNCHANGED <<builder, rest>>

\* A sender that is never dropped
SenderKept(t) == FALSE

\* stream_tx is owned by the spawned task (async move) and is dropped when
\* the task's future completes
SenderDropped(t) == t = "done"

\* The consumer awaits recv() on the UnboundedReceiver: the oldest queued
\* event, or None once the queue is empty and the sender has been dropped;
\* with an empty queue and a live sender the call stays pending.
Recv ==
    /\ pc = "running"
    /\ rx_open
    /\ ~rx_closed
    /\ IF channel # <<>>
       THEN /\ received' = Append(received, Head(channel))
            /\ channel' = Tail(channel)
            /\ rx_closed' = rx_closed
       ELSE /\ SenderDropped(task)
            /\ rx_closed' = TRUE
            /\ UNCHANGED <<received, channel>>
    /\ UNCHANGED <<pc, streams, outbox, sent, buffer, inbox, exhausted, waker,
                   task, read, pulled, last, sum_of_volume, rx_open,
                   send_failed, parse_calls, sink_calls, calls>>
    /\ UNCHANGED <<builder, rest>>

\* The consumer drops the UnboundedReceiver that build returned
DropReceiver ==
    /\ pc = "running"
    /\ rx_open
    /\ rx_open' = FALSE
    /\ UNCHANGED <<pc, streams, outbox, sent, buffer, inbox, exhausted, waker,
                   task, read, pulled, last, sum_of_volume, channel,
                   send_failed, parse_calls, received, rx_closed, sink_calls,
                   calls>>
    /\ UNCHANGED <<builder, rest>>

\* The example's main: while let Some(volume_result) = websocket.next().await
PollNextExample ==
    /\ pc = "example"
    /\ task = "runnable"
    /\ LET r == PollNextLoopExample([buffer |-> buffer, streams |-> sum_of_volume,
                                     inbox |-> inbox, exhausted |-> exhausted,
                                     waker |-> waker, ret |-> "none",
                                     transport |-> "none", item |-> NoItem,
                                     nread |-> 0])
       IN  /\ buffer' = r.buffer
           /\ sum_of_volume' = r.streams
           /\ inbox' = r.inbox
           /\ waker' = r.waker
           /\ read' = read \o SubSeq(inbox, 1, r.nread)
           /\ pulled' = IF r.ret = "Item" THEN Append(pulled, r.item) ELSE pulled
           /\ task' = AfterNext(r.ret)
           /\ last' = [ret |-> r.ret, transport |-> r.transport,
                       item |-> r.item, nread |-> r.nread]
    /\ UNCHANGED <<pc, streams, outbox, sent, exhausted, channel, rx_open,
                   send_failed, parse_calls, received, rx_closed, sink_calls,
                   calls>>
    /\ UNCHANGED <<builder, rest>>

\* The caller polls the stream again after it returned None: nothing in
\* ExchangeSocket records that the end was reported, so the call is made
\* like any other.
PollAgain ==
    /\ pc = "running"
    /\ task = "done"
    /\ task' = "runnable"
    /\ UNCHANGED <<pc, streams, outbox, sent, buffer, inbox, exhausted, waker,
                   read, pulled, last>>
    /\ UNCHANGED others

\* The transport yields a frame after it reported the end of its stream
\* (Socket is any Stream; none is required to be fused).
Resume(frame) ==
    /\ pc = "running"
    /\ exhausted
    /\ Len(read) + Len(inbox) < MaxFrames
    /\ exhausted' = FALSE
    /\ inbox' = Append(inbox, frame)
    /\ UNCHANGED <<pc, streams, outbox, sent, buffer, waker, task, read,
                   pulled, last>>
    /\ UNCHANGED others

\* .map_err passing the transport's error through
SinkResultRaw(outcome) ==
    CASE outcome = "Ok" -> "Ok"
      [] outcome = "Pending" -> "Pending"
      [] outcome = "Err" -> "Err(Transport)"

\* .map_err(|_| SocketError::SinkError) on the transport's outcome
SinkResult(outcome) ==
    CASE outcome = "Ok" -> "Ok"
      [] outcome = "Pending" -> "Pending"
      [] outcome = "Err" -> "Err(Sink)"

\* The outcomes the transport's Sink can give an operation: start_send
\* returns a Result, the poll_ operations a Poll<Result>
SinkOutcomes(op) ==
    IF op = "start_send" THEN {"Ok", "Err"} ELSE {"Ok", "Pending", "Err"}

SinkOps == {"poll_ready", "start_send", "poll_flush", "poll_close"}

\* impl Sink for ExchangeSocket: the operation is handed to the transport,
\* which accepts the item of a successful start_send; the caller gets the
\* transport's outcome through map_err.
SinkCall(op, item, outcome) ==
    /\ pc = "running"
    /\ Len(sink_calls) < MaxSinkCalls
    /\ outcome \in SinkOutcomes(op)
    /\ sent' = IF op = "start_send" /\ outcome = "Ok"
               THEN Append(sent, item) ELSE sent
    /\ sink_calls' = Append(sink_calls,
                            [op |-> op, transport |-> outcome,
                             ret |-> SinkResult(outcome)])
    /\ UNCHANGED <<pc, streams, outbox, buffer, inbox, exhausted, waker, task,
                   read, pulled, last, sum_of_volume, channel, rx_open,
                   send_failed, parse_calls, received, rx_closed, calls>>
    /\ UNCHANGED <<builder, rest>>

\* The suspended task is woken by something other than the transport (a
\* caller may poll a Stream at any time: a select!, a timer, a merged stream).
SpuriousWake ==
    /\ Running
    /\ task = "suspended"
    /\ task' = "runnable"
    /\ UNCHANGED <<pc, streams, outbox, sent, buffer, inbox, exhausted, waker,
                   read, pulled, last>>
    /\ UNCHANGED others

\* The steps of a task that is re-polled on transport readiness only
NextWake ==
    \/ Connect
    \/ ConnectFail
    \/ \E subscriptions \in SubscriptionLists : GenerateSubscriptions(subscriptions)
    \/ SendSubscription
    \/ SendSubscriptionFail
    \/ New
    \/ \E frame \in FrameSet : Deliver(frame)
    \/ Exhaust
    \/ PollNext

Next ==
    \/ Connect
    \/ ConnectFail
    \/ \E subscriptions \in SubscriptionLists : GenerateSubscriptions(subscriptions)
    \/ SendSubscription
    \/ SendSubscriptionFail
    \/ New
    \/ \E frame \in FrameSet : Deliver(frame)
    \/ Exhaust
    \/ PollNext
    \/ SpuriousWake

\* Any driver of the stream
Spec == Init /\ [][Next]_vars

\* A driver woken by the transport only (stream.next().await in a task)
SpecWake == Init /\ [][NextWake]_vars


\* ------------------------------------------------- the two transformers
\* The state MarketStream::init returns with for a subscription list
Initialised(subscriptions) ==
    /\ pc = "running"
    /\ streams = RegisterAll(BinanceFuturesNew, subscriptions)
    /\ outbox = <<>>
    /\ sent = SubscribePayloads(subscriptions)
    /\ buffer = <<>>
    /\ inbox = <<>>
    /\ exhausted = FALSE
    /\ waker = FALSE
    /\ task = "runnable"
    /\ read = <<>>
    /\ pulled = <<>>
    /\ last = [ret |-> "none", transport |-> "none", item |-> NoItem, nread |-> 0]
    /\ sum_of_volume = 0
    /\ channel = <<>>
    /\ rx_open = TRUE
    /\ send_failed = 0
    /\ parse_calls = <<>>
    /\ received = <<>>
    /\ rx_closed = FALSE
    /\ sink_calls = <<>>
    /\ calls = <<>>
    /\ NoBuilder
    /\ NoRest

\* The state of the example's main when it enters its loop
InitExample ==
    /\ pc = "example"
    /\ streams = <<>>
    /\ outbox = <<>>
    /\ sent = SubscribePayloads(<<Trades(Instrument(btc, usdt, "FuturePerpetual"))>>)
    /\ buffer = <<>>
    /\ inbox = <<>>
    /\ exhausted = FALSE
    /\ waker = FALSE
    /\ task = "runnable"
    /\ read = <<>>
    /\ pulled = <<>>
    /\ last = [ret |-> "none", transport |-> "none", item |-> NoItem, nread |-> 0]
    /\ sum_of_volume = 0
    /\ channel = <<>>
    /\ rx_open = TRUE
    /\ send_failed = 0
    /\ parse_calls = <<>>
    /\ received = <<>>
    /\ rx_closed = FALSE
    /\ sink_calls = <<>>
    /\ calls = <<>>
    /\ NoBuilder
    /\ NoRest

\* The frames fed to the two transformers
TransformerFrames ==
    { Frame("Text", TradeJson(BTCUSDT, aggTrade, 1)),
      Frame("Text", SubscribedJson("null")),
      Frame("Text", SubscribedJson("list")),
      Frame("Text", GarbageJson),
      Frame("Ping", NoPayload) }

InitTransformers ==
    \/ \E subscriptions \in SubscriptionLists : Initialised(subscriptions)
    \/ InitExample

NextTransformers ==
    \/ \E frame \in TransformerFrames : Deliver(frame)
    \/ Exhaust
    \/ PollNext
    \/ PollNextExample
    \/ SpuriousWake

\* An ExchangeSocket over either transformer of the repository
SpecTransformers == InitTransformers /\ [][NextTransformers]_vars

\* ------------------------------------------------------ the Stream Registry
\* The frames fed to the stream that consume forwards
RegistryFrames ==
    { Frame("Text", TradeJson(BTCUSDT, aggTrade, 1)),
      Frame("Binary", TradeJson(ETHUSDT, aggTrade, 2)),
      Frame("Text", SubscribedJson("list")),
      Frame("Text", GarbageJson),
      Frame("Close", NoPayload),
      Frame("Error", NoPayload) }

\* consume after S::init succeeded and the task was spawned
InitRegistry == \E subscriptions \in SubscriptionLists : Initialised(subscriptions)

NextRegistry ==
    \/ \E frame \in RegistryFrames : Deliver(frame)
    \/ Exhaust
    \/ Consume
    \/ DropReceiver
    \/ SpuriousWake

\* One exchange's forwarding task and the consumer of its channel
SpecRegistry == InitRegistry /\ [][NextRegistry]_vars

\* ------------------------------------------- subscribing on a live stream
\* Trades of the two instruments
TradeFrames ==
    { Frame("Text", TradeJson(BTCUSDT, aggTrade, 1)),
      Frame("Binary", TradeJson(ETHUSDT, aggTrade, 2)) }

InitResubscribe == \E subscriptions \in SubscriptionLists : Initialised(subscriptions)

NextResubscribe ==
    \/ \E frame \in TradeFrames : Deliver(frame)
    \/ Exhaust
    \/ PollNext
    \/ SpuriousWake
    \/ \E subscriptions \in SubscriptionLists : Resubscribe(subscriptions)

\* A stream whose owner calls generate_subscriptions again while it lives
SpecResubscribe == InitResubscribe /\ [][NextResubscribe]_vars

\* --------------------------------------------- one spot Trades subscription
\* Subscription for ("btc", "usdt", Spot, Trades)
SpotTrades == Trades(Instrument(Symbol(btc), Symbol(usdt), "Spot"))

\* Valid trade frames of the pair, with event type "trade" and "aggTrade"
SpotFrames ==
    { Frame("Text", TradeJson(BTCUSDT, e, a)) : e \in {tradeEvent, aggTrade}, a \in {1, 2} }

InitSpot == Initialised(<<SpotTrades>>)

NextSpot ==
    \/ \E frame \in SpotFrames : Deliver(frame)
    \/ Exhaust
    \/ PollNext
    \/ SpuriousWake

\* The stream of one spot Trades subscription fed trade frames
SpecSpot == InitSpot /\ [][NextSpot]_vars

\* --------------------------------------------------------- the parser alone
\* The inputs given to parse: every variant of WsMessage and a transport
\* error, with payloads that deserialise, that do not, and that are not UTF-8
ParserInputs ==
    FrameSet \cup { Frame("Binary", InvalidUtf8),
                    Frame("Binary", GarbageJson),
                    Frame("Text", UnknownObjectJson) }

\* A caller applies WebSocketParser::parse::<BinanceMessage> to an input
Parse(input) ==
    /\ pc = "parser"
    /\ Len(parse_calls) < MaxFrames
    /\ parse_calls' = Append(parse_calls, [input |-> input, output |-> parse(input)])
    /\ UNCHANGED <<pc, streams, outbox, sent, buffer, inbox, exhausted, waker,
                   task, read, pulled, last, sum_of_volume, channel, rx_open,
                   send_failed, received, rx_closed, sink_calls, calls>>
    /\ UNCHANGED <<builder, rest>>

InitParser ==
    /\ pc = "parser"
    /\ streams = BinanceFuturesNew
    /\ outbox = <<>>
    /\ sent = <<>>
    /\ buffer = <<>>
    /\ inbox = <<>>
    /\ exhausted = FALSE
    /\ waker = FALSE
    /\ task = "runnable"
    /\ read = <<>>
    /\ pulled = <<>>
    /\ last = [ret |-> "none", transport |-> "none", item |-> NoItem, nread |-> 0]
    /\ sum_of_volume = 0
    /\ channel = <<>>
    /\ rx_open = TRUE
    /\ send_failed = 0
    /\ parse_calls = <<>>
    /\ received = <<>>
    /\ rx_closed = FALSE
    /\ sink_calls = <<>>
    /\ calls = <<>>
    /\ NoBuilder
    /\ NoRest

NextParser == \E input \in ParserInputs : Parse(input)

\* WebSocketParser::parse applied to inputs of every kind
SpecParser == InitParser /\ [][NextParser]_vars

\* ---------------------------------------------- a consumer of the channel
\* Two trades of one channel, told apart by their trade id, and a payload
\* that does not deserialise
ConsumerFrames ==
    { Frame("Text", TradeJson(BTCUSDT, aggTrade, 1)),
      Frame("Text", TradeJson(BTCUSDT, aggTrade, 2)),
      Frame("Text", GarbageJson) }

InitConsumer ==
    Initialised(<<Trades(Instrument(btc, usdt, "FuturePerpetual"))>>)

NextConsumer ==
    \/ \E frame \in ConsumerFrames : Deliver(frame)
    \/ Exhaust
    \/ Consume
    \/ Recv
    \/ SpuriousWake

\* The forwarding task and a consumer that receives from the channel
SpecConsumer == InitConsumer /\ [][NextConsumer]_vars

\* The same with a consumer that does not stop calling recv()
SpecConsumerLive == SpecConsumer /\ WF_vars(Recv)

\* ------------------------------------------------ init and the first pulls
NextInit ==
    \/ Connect
    \/ ConnectFail
    \/ \E subscriptions \in SubscriptionLists : GenerateSubscriptions(subscriptions)
    \/ SendSubscription
    \/ SendSubscriptionFail
    \/ New
    \/ \E frame \in TradeFrames : Deliver(frame)
    \/ Exhaust
    \/ PollNext
    \/ SpuriousWake

\* MarketStream::init followed by a stream fed trades only
SpecInit == Init /\ [][NextInit]_vars

\* ---------------------------------------------- polling after the end
InitUnfused == \E subscriptions \in SubscriptionLists : Initialised(subscriptions)

NextUnfused ==
    \/ \E frame \in TradeFrames : Deliver(frame)
    \/ Exhaust
    \/ PollNext
    \/ SpuriousWake
    \/ PollAgain
    \/ \E frame \in TradeFrames : Resume(frame)

\* A stream whose caller polls on after None, over any transport
SpecUnfused == InitUnfused /\ [][NextUnfused]_vars

\* ------------------------------------------------- pushes between pulls
InitSink ==
    Initialised(<<Trades(Instrument(btc, usdt, "FuturePerpetual"))>>)

\* The item pushed: a further SUBSCRIBE request
SinkItem ==
    [method |-> "SUBSCRIBE", params |-> <<eth \o usdt \o AtAggTrade>>, id |-> 2]

NextSink ==
    \/ Deliver(Frame("Text", TradeJson(BTCUSDT, aggTrade, 1)))
    \/ Exhaust
    \/ PollNext
    \/ \E op \in SinkOps, outcome \in {"Ok", "Pending", "Err"} :
          SinkCall(op, SinkItem, outcome)

\* A socket that is pushed to and pulled from
SpecSink == InitSink /\ [][NextSink]_vars

\* ------------------------------------------------------------- market ids
\* Exchange names and symbols that differ in case or hold an underscore
ExchangeNames == { <<"b">>, <<"B">>, <<"b", "_", "t">> }
BaseNames == { <<"c">>, <<"t">>, <<"t", "_", "c">> }

Markets ==
    { Market(Exchange(e), Instrument(Symbol(b), Symbol(<<"u">>), k)) :
        e \in ExchangeNames, b \in BaseNames, k \in {"Spot", "FuturePerpetual"} }

\* A caller makes the MarketId of two Markets
MarketIds(m1, m2) ==
    /\ pc = "types"
    /\ calls = <<>>
    /\ calls' = << [input |-> m1, output |-> MarketIdNew(m1.exchange, m1.instrument)],
                   [input |-> m2, output |-> MarketIdNew(m2.exchange, m2.instrument)] >>
    /\ UNCHANGED <<pc, streams, outbox, sent, buffer, inbox, exhausted, waker,
                   task, read, pulled, last, sum_of_volume, channel, rx_open,
                   send_failed, parse_calls, received, rx_closed, sink_calls>>
    /\ UNCHANGED <<builder, rest>>

\* No socket: only values of the model types are made
InitTypes ==
    /\ pc = "types"
    /\ streams = BinanceFuturesNew
    /\ outbox = <<>>
    /\ sent = <<>>
    /\ buffer = <<>>
    /\ inbox = <<>>
    /\ exhausted = FALSE
    /\ waker = FALSE
    /\ task = "runnable"
    /\ read = <<>>
    /\ pulled = <<>>
    /\ last = [ret |-> "none", transport |-> "none", item |-> NoItem, nread |-> 0]
    /\ sum_of_volume = 0
    /\ channel = <<>>
    /\ rx_open = TRUE
    /\ send_failed = 0
    /\ parse_calls = <<>>
    /\ received = <<>>
    /\ rx_closed = FALSE
    /\ sink_calls = <<>>
    /\ calls = <<>>
    /\ NoBuilder
    /\ NoRest

NextMarketIds == \E m1, m2 \in Markets : MarketIds(m1, m2)

\* MarketId::new applied to pairs of Markets
SpecMarketIds == InitTypes /\ [][NextMarketIds]_vars

\* ---------------------------------------------------------- deserialising
\* The JSON objects deserialised: each field absent, a number or a string
JsonObjects ==
    [ exchange : {JsonAbsent, JsonNumber, JsonString(<<"b">>)},
      base : {JsonAbsent, JsonNumber, JsonString(btc), JsonString(<<"B", "T", "C">>)},
      quote : {JsonAbsent, JsonNumber, JsonString(usdt)},
      instrument_type : {JsonAbsent, JsonNumber,
                         JsonString(KindDisplay("Spot")),
                         JsonString(KindDisplay("FuturePerpetual")),
                         JsonString(<<"S", "p", "o", "t">>)} ]

\* serde_json::from_str::<Instrument>(input)
FromStrInstrument(json) ==
    /\ pc = "types"
    /\ calls = <<>>
    /\ calls' = << [type |-> "Instrument", input |-> json,
                    output |-> DeInstrument(json)] >>
    /\ UNCHANGED <<pc, streams, outbox, sent, buffer, inbox, exhausted, waker,
                   task, read, pulled, last, sum_of_volume, channel, rx_open,
                   send_failed, parse_calls, received, rx_closed, sink_calls>>
    /\ UNCHANGED <<builder, rest>>

\* serde_json::from_str::<Market>(input)
FromStrMarket(json) ==
    /\ pc = "types"
    /\ calls = <<>>
    /\ calls' = << [type |-> "Market", input |-> json,
                    output |-> DeMarket(json)] >>
    /\ UNCHANGED <<pc, streams, outbox, sent, buffer, inbox, exhausted, waker,
                   task, read, pulled, last, sum_of_volume, channel, rx_open,
                   send_failed, parse_calls, received, rx_closed, sink_calls>>
    /\ UNCHANGED <<builder, rest>>

NextDeserialise ==
    \/ \E json \in JsonObjects : FromStrInstrument(json)
    \/ \E json \in JsonObjects : FromStrMarket(json)

\* Instrument and Market deserialised from JSON objects
SpecDeserialise == InitTypes /\ [][NextDeserialise]_vars

\* --------------------------------------------------------- the StreamBuilder
\* The number of StreamBuilder::add calls made before build
MaxAdds == 2

\* enum Exchange of the builder
Exchanges == {"BinanceFutures"}

\* StreamConfig { instrument, kind }
StreamConfig(instrument, kind) == [instrument |-> instrument, kind |-> kind]

\* Subscription::from(StreamConfig): StreamKind::Trade => Trades(instrument)
SubscriptionFrom(stream) ==
    CASE stream.kind = "Trade" -> Trades(stream.instrument)

\* StreamBuilder::new: an empty config map
StreamBuilderNew == <<>>

\* StreamBuilder::add: self.config.insert(exchange, collected configs)
add(cfg, exchange, configs) == MapInsert(cfg, exchange, configs)

\* build with no check of the config
is_zero_never(cfg) == FALSE

\* build: self.config.len().is_zero()
is_zero(cfg) == DOMAIN cfg = {}

\* The lists of StreamConfigs a caller adds
ConfigLists ==
    { <<StreamConfig(Instrument(btc, usdt, "FuturePerpetual"), "Trade")>>,
      <<StreamConfig(Instrument(eth, usdt, "FuturePerpetual"), "Trade")>>,
      <<StreamConfig(Instrument(btc, usdt, "FuturePerpetual"), "Trade"),
        StreamConfig(Instrument(eth, usdt, "FuturePerpetual"), "Trade")>> }

\* The exchange whose iteration of build's for loop is running
BuildExchange == CHOOSE exchange \in DOMAIN config : exchange \notin DOMAIN exchange_streams

\* build: streams.into_iter().map(Subscription::from).collect()
BuildSubscriptions ==
    [i \in DOMAIN config[BuildExchange] |-> SubscriptionFrom(config[BuildExchange][i])]

\* A caller chains StreamBuilder::add
Add(exchange, configs) ==
    /\ pc = "builder"
    /\ Len(adds) < MaxAdds
    /\ config' = add(config, exchange, configs)
    /\ adds' = Append(adds, [exchange |-> exchange, config |-> configs])
    /\ UNCHANGED <<pc, streams, outbox, sent, buffer, inbox, exhausted, waker,
                   task, read, pulled, last, sum_of_volume, channel, rx_open,
                   send_failed, parse_calls, received, rx_closed, sink_calls,
                   calls, exchange_streams, spawned, build_ret, rest>>

\* build up to the first iteration of its for loop: the error for an empty
\* config, else the empty result map and consume::<BinanceFuturesStream>
\* for the first entry (a loop over no entry returns the empty map)
Build ==
    /\ pc = "builder"
    /\ IF is_zero(config)
       THEN /\ build_ret' = "Err(Subscribe)"
            /\ pc' = "built"
       ELSE IF DOMAIN config = {}
            THEN /\ build_ret' = "Ok"
                 /\ pc' = "built"
            ELSE /\ build_ret' = build_ret
                 /\ pc' = "start"
    /\ exchange_streams' = <<>>
    /\ UNCHANGED <<streams, outbox, sent, buffer, inbox, exhausted, waker,
                   task, read, pulled, last, sum_of_volume, channel, rx_open,
                   send_failed, parse_calls, received, rx_closed, sink_calls,
                   calls, config, adds, spawned, rest>>

\* consume spawning the forwarding task while init is still sending the
\* subscription payloads
SpawnEarly ==
    /\ pc \in {"subscribing", "running"}
    /\ build_ret = "none"
    /\ BuildExchange \notin spawned
    /\ spawned' = spawned \cup {BuildExchange}
    /\ UNCHANGED <<pc, streams, outbox, sent, buffer, inbox, exhausted, waker,
                   task, read, pulled, last, sum_of_volume, channel, rx_open,
                   send_failed, parse_calls, received, rx_closed, sink_calls,
                   calls, config, adds, exchange_streams, build_ret, rest>>

\* consume: init returned the stream; the channel is made and tokio::spawn
\* starts the forwarding task
Spawn ==
    /\ pc = "running"
    /\ build_ret = "none"
    /\ BuildExchange \notin spawned
    /\ spawned' = spawned \cup {BuildExchange}
    /\ UNCHANGED <<pc, streams, outbox, sent, buffer, inbox, exhausted, waker,
                   task, read, pulled, last, sum_of_volume, channel, rx_open,
                   send_failed, parse_calls, received, rx_closed, sink_calls,
                   calls, config, adds, exchange_streams, build_ret, rest>>

\* build: consume returned Ok(stream_rx); the receiver is inserted and, the
\* loop having no further entry, build returns Ok(exchange_streams)
BuildOk ==
    /\ pc = "running"
    /\ build_ret = "none"
    /\ BuildExchange \in spawned
    /\ exchange_streams' = MapInsert(exchange_streams, BuildExchange, "stream_rx")
    /\ build_ret' = IF DOMAIN exchange_streams' = DOMAIN config THEN "Ok" ELSE build_ret
    /\ UNCHANGED <<pc, streams, outbox, sent, buffer, inbox, exhausted, waker,
                   task, read, pulled, last, sum_of_volume, channel, rx_open,
                   send_failed, parse_calls, received, rx_closed, sink_calls,
                   calls, config, adds, spawned, rest>>

\* build: consume(..).await? returned init's error; build returns it and its
\* local exchange_streams is dropped.  Nothing is done to a task spawned
\* earlier (tokio::spawn's JoinHandle was discarded).
BuildErr ==
    /\ pc = "failed"
    /\ build_ret = "none"
    /\ build_ret' = "Err(init)"
    /\ exchange_streams' = <<>>
    /\ UNCHANGED <<pc, streams, outbox, sent, buffer, inbox, exhausted, waker,
                   task, read, pulled, last, sum_of_volume, channel, rx_open,
                   send_failed, parse_calls, received, rx_closed, sink_calls,
                   calls, config, adds, spawned, rest>>

\* A new StreamBuilder
InitBuilder ==
    /\ pc = "builder"
    /\ streams = BinanceFuturesNew
    /\ outbox = <<>>
    /\ sent = <<>>
    /\ buffer = <<>>
    /\ inbox = <<>>
    /\ exhausted = FALSE
    /\ waker = FALSE
    /\ task = "runnable"
    /\ read = <<>>
    /\ pulled = <<>>
    /\ last = [ret |-> "none", transport |-> "none", item |-> NoItem, nread |-> 0]
    /\ sum_of_volume = 0
    /\ channel = <<>>
    /\ rx_open = TRUE
    /\ send_failed = 0
    /\ parse_calls = <<>>
    /\ received = <<>>
    /\ rx_closed = FALSE
    /\ sink_calls = <<>>
    /\ calls = <<>>
    /\ config = StreamBuilderNew
    /\ adds = <<>>
    /\ exchange_streams = <<>>
    /\ spawned = {}
    /\ build_ret = "none"
    /\ NoRest

NextBuilder ==
    \/ \E exchange \in Exchanges, configs \in ConfigLists : Add(exchange, configs)
    \/ Build
    \/ Connect
    \/ ConnectFail
    \/ GenerateSubscriptions(BuildSubscriptions)
    \/ SendSubscription
    \/ SendSubscriptionFail
    \/ New
    \/ Spawn
    \/ BuildOk
    \/ BuildErr
    \/ \E frame \in TradeFrames : Deliver(frame)
    \/ Exhaust
    \/ (spawned # {} /\ Consume)
    \/ (build_ret = "Ok" /\ Recv)

\* A StreamBuilder from new to the channels build returns
SpecBuilder == InitBuilder /\ [][NextBuilder]_vars

\* ------------------------------------------------- generate_subscriptions
\* The length of the Subscription list passed to generate_subscriptions
MaxSubscriptions == 3

\* The Subscriptions a caller may ask for
SubscriptionSet ==
    { Trades(Instrument(btc, usdt, "FuturePerpetual")),
      Trades(Instrument(btc, usdt, "Spot")),
      Trades(Instrument(eth, usdt, "FuturePerpetual")),
      Trades(Instrument(eth, usdt, "Spot")),
      Trades(Instrument(<<"b", "t">>, <<"c">> \o usdt, "FuturePerpetual")),
      Trades(Instrument(<<"b", "t">>, <<"c">> \o usdt, "Spot")) }

\* The lists of distinct Subscriptions, up to MaxSubscriptions long
DistinctLists ==
    { list \in UNION { [1..n -> SubscriptionSet] : n \in 1..MaxSubscriptions } :
        \A i, j \in DOMAIN list : i # j => list[i] # list[j] }

\* generate_subscriptions called on a new BinanceFutures
GenerateSubscriptionsNew(subscriptions) ==
    /\ pc = "types"
    /\ calls = <<>>
    /\ calls' = << [input |-> subscriptions,
                    streams |-> RegisterAll(BinanceFuturesNew, subscriptions),
                    output |-> SubscribePayloads(subscriptions)] >>
    /\ UNCHANGED <<pc, streams, outbox, sent, buffer, inbox, exhausted, waker,
                   task, read, pulled, last, sum_of_volume, channel, rx_open,
                   send_failed, parse_calls, received, rx_closed, sink_calls>>
    /\ UNCHANGED <<builder, rest>>

NextSubscriptions ==
    \E subscriptions \in DistinctLists : GenerateSubscriptionsNew(subscriptions)

\* generate_subscriptions applied to lists of distinct Subscriptions
SpecSubscriptions == InitTypes /\ [][NextSubscriptions]_vars

\* ------------------------------------------------------------ the RestClient
\* The number of execute calls made on the RestClient
MaxRequests == 2

\* {"success": true, "result": [{"coin": .., "total": ..}]}
BalancesJson == Body(TRUE, {"success", "result"}, "")
\* {"success": false, "error": "Invalid login credentials"}
UnauthorisedJson == Body(TRUE, {"success", "error"}, "Invalid login credentials")
\* {"success": false, "error": "Not logged in"}
OtherErrorJson == Body(TRUE, {"success", "error"}, "Not logged in")
\* a body that is no JSON (a gateway's HTML page)
NotJson == Body(FALSE, {}, "")

Bodies == {BalancesJson, UnauthorisedJson, OtherErrorJson, NotJson}

StatusCodes == {200, 401}

\* The serde_json::Error of a from_slice::<T> call
SerdeError(type, message) == [type |-> type, message |-> message]

\* serde_json::from_slice::<FetchBalancesResponse>(payload): both fields of
\* the struct are required
DeFetchBalancesResponse(payload) ==
    IF ~payload.wellformed
    THEN [ok |-> FALSE, error |-> SerdeError("FetchBalancesResponse", "expected value")]
    ELSE IF "success" \notin payload.fields
    THEN [ok |-> FALSE, error |-> SerdeError("FetchBalancesResponse", "missing field success")]
    ELSE IF "result" \notin payload.fields
    THEN [ok |-> FALSE, error |-> SerdeError("FetchBalancesResponse", "missing field result")]
    ELSE [ok |-> TRUE, value |-> "FetchBalancesResponse"]

\* FtxParser::parse_api_error: any JSON value is an API error, Unauthorised
\* when its text contains "Invalid login credentials"
parse_api_error(status, payload) ==
    IF ~payload.wellformed
    THEN [ok |-> FALSE,
          error |-> [kind |-> "DeserialiseBinary",
                     error |-> SerdeError("Value", "expected value"),
                     payload |-> payload]]
    ELSE [ok |-> TRUE,
          value |-> IF payload.message = "Invalid login credentials"
                    THEN [kind |-> "Unauthorised", message |-> payload.message]
                    ELSE [kind |-> "HttpResponse", status |-> status,
                          message |-> payload.message]]

\* parse asking parse_api_error before it tries the Response type
HttpParserParseErrorFirst(status, payload) ==
    LET api == parse_api_error(status, payload)
        de == DeFetchBalancesResponse(payload)
    IN  IF api.ok THEN [tag |-> "Err", error |-> api.value]
        ELSE IF de.ok THEN [tag |-> "Ok", value |-> de.value]
        ELSE [tag |-> "Err",
              error |-> [kind |-> "DeserialiseBinary", error |-> de.error,
                         payload |-> payload]]

\* HttpParser::parse::<FetchBalancesResponse>
HttpParserParse(status, payload) ==
    LET de == DeFetchBalancesResponse(payload)
    IN  IF de.ok THEN [tag |-> "Ok", value |-> de.value]
        ELSE LET api == parse_api_error(status, payload)
             IN  IF api.ok THEN [tag |-> "Err", error |-> api.value]
                 ELSE [tag |-> "Err",
                       error |-> [kind |-> "DeserialiseBinary",
                                  error |-> de.error, payload |-> payload]]

\* execute going on to the HTTP call whatever build returned
AfterBuildUnchecked(ok) == "built"

\* execute: let request = self.build(request)?
AfterBuild(ok) == IF ok THEN "built" ELSE "idle"

\* measured_execution returning the failure of metric_tx.send
AfterMetricChecked(open) == IF open THEN "measured" ELSE "idle"

\* measured_execution: if self.metric_tx.send(..).is_err() { warn!(..) }
AfterMetric(open) == "measured"

\* A caller calls execute(FetchBalancesRequest)
RestExecute ==
    /\ rest_pc = "idle"
    /\ Len(SelectSeq(rest_log, LAMBDA step : step = "execute")) < MaxRequests
    /\ rest_pc' = "executing"
    /\ rest_log' = Append(rest_log, "execute")
    /\ rest_ret' = NoResult
    /\ response' = NoResponse
    /\ UNCHANGED <<metrics, metric_rx_open>>

\* build: the RequestBuilder is made and strategy.build(request, builder)
\* returns the reqwest::Request or a SocketError
RestBuild(ok) ==
    /\ rest_pc = "executing"
    /\ rest_pc' = AfterBuild(ok)
    /\ rest_log' = Append(rest_log, IF ok THEN "build_ok" ELSE "build_err")
    /\ rest_ret' = IF rest_pc' = "idle"
                   THEN [tag |-> "Err", error |-> [kind |-> "Build"]]
                   ELSE rest_ret
    /\ UNCHANGED <<response, metrics, metric_rx_open>>

\* measured_execution: self.http_client.execute(request).await? answers with
\* a response or fails (timeout, connection)
HttpClientExecute(ok, status, payload) ==
    /\ rest_pc = "built"
    /\ rest_log' = Append(rest_log, IF ok THEN "http_ok" ELSE "http_err")
    /\ IF ok
       THEN /\ response' = [status |-> status, payload |-> payload]
            /\ rest_pc' = "responded"
            /\ rest_ret' = rest_ret
       ELSE /\ response' = response
            /\ rest_pc' = "idle"
            /\ rest_ret' = [tag |-> "Err", error |-> [kind |-> "Http"]]
    /\ UNCHANGED <<metrics, metric_rx_open>>

\* measured_execution: the http_request_duration Metric is made and sent on
\* metric_tx; the send fails when the receiver is gone
MetricSend ==
    /\ rest_pc = "responded"
    /\ rest_log' = Append(rest_log, IF metric_rx_open THEN "metric_sent"
                                                     ELSE "metric_failed")
    /\ metrics' = IF metric_rx_open
                  THEN Append(metrics, [name |-> "http_request_duration",
                                        status_code |-> response.status])
                  ELSE metrics
    /\ rest_pc' = AfterMetric(metric_rx_open)
    /\ rest_ret' = IF rest_pc' = "idle"
                   THEN [tag |-> "Err", error |-> [kind |-> "Metric"]]
                   ELSE rest_ret
    /\ UNCHANGED <<response, metric_rx_open>>

\* measured_execution: response.bytes().await? reads the body or fails
ResponseBytes(ok) ==
    /\ rest_pc = "measured"
    /\ rest_log' = Append(rest_log, IF ok THEN "bytes_ok" ELSE "bytes_err")
    /\ rest_pc' = IF ok THEN "received" ELSE "idle"
    /\ rest_ret' = IF ok THEN rest_ret
                   ELSE [tag |-> "Err", error |-> [kind |-> "Http"]]
    /\ UNCHANGED <<response, metrics, metric_rx_open>>

\* execute: self.parser.parse::<Request::Response>(status, &payload)
RestParse ==
    /\ rest_pc = "received"
    /\ rest_log' = Append(rest_log, "parse")
    /\ rest_ret' = HttpParserParse(response.status, response.payload)
    /\ rest_pc' = "idle"
    /\ UNCHANGED <<response, metrics, metric_rx_open>>

\* The owner of the metric channel drops its receiver
DropMetricReceiver ==
    /\ rest_pc # "none"
    /\ metric_rx_open
    /\ metric_rx_open' = FALSE
    /\ UNCHANGED <<rest_pc, rest_log, response, metrics, rest_ret>>

\* The state outside the RestClient
norest == <<pc, streams, outbox, sent, buffer, inbox, exhausted, waker, task,
            read, pulled, last, sum_of_volume, channel, rx_open, send_failed,
            parse_calls, received, rx_closed, sink_calls, calls, builder>>

\* RestClient::new
InitRest ==
    /\ pc = "rest"
    /\ streams = BinanceFuturesNew
    /\ outbox = <<>>
    /\ sent = <<>>
    /\ buffer = <<>>
    /\ inbox = <<>>
    /\ exhausted = FALSE
    /\ waker = FALSE
    /\ task = "runnable"
    /\ read = <<>>
    /\ pulled = <<>>
    /\ last = [ret |-> "none", transport |-> "none", item |-> NoItem, nread |-> 0]
    /\ sum_of_volume = 0
    /\ channel = <<>>
    /\ rx_open = TRUE
    /\ send_failed = 0
    /\ parse_calls = <<>>
    /\ received = <<>>
    /\ rx_closed = FALSE
    /\ sink_calls = <<>>
    /\ calls = <<>>
    /\ NoBuilder
    /\ rest_pc = "idle"
    /\ rest_log = <<>>
    /\ response = NoResponse
    /\ metrics = <<>>
    /\ metric_rx_open = TRUE
    /\ rest_ret = NoResult

NextRest ==
    \/ (RestExecute /\ UNCHANGED norest)
    \/ \E ok \in BOOLEAN : RestBuild(ok) /\ UNCHANGED norest
    \/ \E status \in StatusCodes, payload \in Bodies :
          HttpClientExecute(TRUE, status, payload) /\ UNCHANGED norest
    \/ (HttpClientExecute(FALSE, 0, NoBody) /\ UNCHANGED norest)
    \/ (MetricSend /\ UNCHANGED norest)
    \/ \E ok \in BOOLEAN : ResponseBytes(ok) /\ UNCHANGED norest
    \/ (RestParse /\ UNCHANGED norest)
    \/ (DropMetricReceiver /\ UNCHANGED norest)

\* A RestClient executing FetchBalancesRequests
SpecRest == InitRest /\ [][NextRest]_vars

\* ---------------------------------------------------------------- Symbols
\* The length of the strings Symbols are made of
MaxSymbolLen == 2

\* The strings a caller makes Symbols of
SymbolInputs ==
    UNION { [1..n -> {"b", "B", "t", "T"}] : n \in 1..MaxSymbolLen }

\* What each way of making a Symbol of the input gives, and the Instrument
\* and SubscriptionId made with it as the base
SymbolPaths(input) ==
    [input |-> input,
     new |-> Symbol(input),
     from |-> SymbolFrom(input),
     de |-> DeSymbol(JsonString(input)),
     twice |-> Symbol(Symbol(input)),
     instrument |-> Instrument(input, usdt, "FuturePerpetual"),
     de_instrument |-> DeInstrument([base |-> JsonString(input),
                                    quote |-> JsonString(usdt),
                                    instrument_type |->
                                        JsonString(KindDisplay("FuturePerpetual"))]),
     id |-> get_stream_id(Trades(Instrument(input, usdt, "FuturePerpetual")))]

\* A caller makes Symbols of two strings
Symbols(s1, s2) ==
    /\ pc = "types"
    /\ calls = <<>>
    /\ calls' = <<SymbolPaths(s1), SymbolPaths(s2)>>
    /\ UNCHANGED <<pc, streams, outbox, sent, buffer, inbox, exhausted, waker,
                   task, read, pulled, last, sum_of_volume, channel, rx_open,
                   send_failed, parse_calls, received, rx_closed, sink_calls>>
    /\ UNCHANGED <<builder, rest>>

NextSymbols == \E s1, s2 \in SymbolInputs : Symbols(s1, s2)

\* Symbols made of pairs of strings
SpecSymbols == InitTypes /\ [][NextSymbols]_vars

\* ===================================================================== claims
\* The streams map as generate_subscriptions left it (every sequence 0)
InitialStreams == [id \in DOMAIN streams |-> StreamMetaNew(streams[id].subscription)]

\* What a sequence of frames produces, frame by frame: nothing for a frame
\* the parser skips, the parser's error, or the transformer's outputs.
RECURSIVE ExpectedItems(_, _)
ExpectedItems(st, frames) ==
    IF frames = <<>> THEN <<>>
    ELSE LET parsed == parse(Head(frames))
         IN  IF parsed.opt = "None" THEN ExpectedItems(st, Tail(frames))
             ELSE IF ~parsed.ok
             THEN <<parsed.err>> \o ExpectedItems(st, Tail(frames))
             ELSE LET out == transform(st, parsed.msg)
                  IN  OutputIter(out) \o ExpectedItems(out.streams, Tail(frames))

\* A poll_next step that took at least one frame from the transport
TookFrame == Len(read') > Len(read)
\* The last frame that step took
LastTaken == read'[Len(read')]

IsMalformed(frame) ==
    frame.kind \in {"Text", "Binary"} /\ ~Deserialise(frame.payload).ok
IsTrade(frame) ==
    /\ frame.kind \in {"Text", "Binary"}
    /\ Deserialise(frame.payload).ok
    /\ Deserialise(frame.payload).msg.variant = "Trade"
IsSubscribed(frame, result) ==
    /\ frame.kind \in {"Text", "Binary"}
    /\ Deserialise(frame.payload).ok
    /\ Deserialise(frame.payload).msg.variant = "Subscribed"
    /\ Deserialise(frame.payload).msg.result = result
TradeStreamId(frame) == to_stream_id(Deserialise(frame.payload).msg)
HasPulled(kind) == \E i \in 1..Len(pulled) : pulled[i].kind = kind

\* A step that took a trade frame of a registered stream delivers its event,
\* stamped with the stored sequence, and adds one to that sequence.
TradeDelivered ==
    (TookFrame /\ IsTrade(LastTaken) /\ TradeStreamId(LastTaken) \in DOMAIN streams)
        => /\ pulled' = Append(pulled,
                  OkItem(streams[TradeStreamId(LastTaken)].sequence,
                         streams[TradeStreamId(LastTaken)].subscription.instrument,
                         LastTaken.payload.a))
           /\ streams'[TradeStreamId(LastTaken)].sequence =
                  streams[TradeStreamId(LastTaken)].sequence + 1
           /\ task' = "runnable"

\* C1: the items pulled so far, followed by the buffered ones, are the
\* concatenation in arrival order of what each frame taken from the transport
\* produces; no item is lost, duplicated or reordered.
C1_Ordering ==
    pc = "running" => pulled \o buffer = ExpectedItems(InitialStreams, read)

C1_Witness ==
    /\ Len(read) = 3 /\ Len(pulled) = 2 /\ read[2].kind = "Pong"
    /\ pulled[1].tag = "Ok" /\ pulled[2].tag = "Err"

\* The events pulled for stream S, in pull order
EventsFor(S) ==
    SelectSeq(pulled, LAMBDA it : it.tag = "Ok" /\ get_stream_id(Trades(it.instrument)) = S)

\* C2: for every SubscriptionId the events pulled carry the sequence numbers
\* 0, 1, 2, ... in pull order, whatever other frames are interleaved.
C2_SequenceMonotonic ==
    /\ \A S \in DOMAIN streams :
          \A i \in 1..Len(EventsFor(S)) : EventsFor(S)[i].sequence = i - 1
    /\ \A i \in 1..Len(pulled) :
          pulled[i].tag = "Ok" => get_stream_id(Trades(pulled[i].instrument)) \in DOMAIN streams

C2_Witness ==
    /\ Len(pulled) = 3
    /\ pulled[1].tag = "Ok" /\ pulled[1].sequence = 0
    /\ pulled[2].kind = "Unidentifiable"
    /\ pulled[3].tag = "Ok" /\ pulled[3].sequence = 1
    /\ pulled[3].instrument = pulled[1].instrument

\* C3: a poll_next call whose parser skipped a frame goes on to poll the
\* transport again, so a call that returns Pending is one whose last poll of
\* the transport returned Pending.
C3_SkipLoopsBack ==
    last.ret = "Pending" => last.transport = "Pending"

\* C4: the consumer is never left suspended with a frame available and no
\* wake-up registered (Pending is returned only from the transport's Pending).
C4_NoLostWakeup ==
    ~(pc = "running" /\ task = "suspended" /\ inbox # <<>> /\ ~waker)

\* C5: no item is delivered after the Terminated item of a close frame.
C5_CloseTerminates ==
    \A i \in 1..Len(pulled) : pulled[i].kind = "Terminated" => i = Len(pulled)

\* C6: no item is delivered after the Err item of a transport error.
C6_TransportErrorTerminates ==
    \A i \in 1..Len(pulled) : pulled[i].kind = "WebSocket" => i = Len(pulled)

\* C7: a text or binary frame that fails to deserialise yields exactly one
\* Serde error carrying its payload, leaves buffer and sequences unchanged and
\* does not end the stream; a valid frame taken afterwards is delivered.
C7_DeserialiseContinues ==
    [][ /\ (TookFrame /\ IsMalformed(LastTaken))
            => /\ pulled' = Append(pulled, ErrItem("Serde", <<>>, LastTaken.payload))
               /\ streams' = streams
               /\ buffer' = buffer
               /\ task' = "runnable"
               /\ pc' = "running"
        /\ HasPulled("Serde") => TradeDelivered ]_vars

C7_Witness ==
    /\ Len(pulled) = 2
    /\ pulled[1].kind = "Serde" /\ pulled[1].payload = GarbageJson
    /\ pulled[2].tag = "Ok"

\* C8: a trade whose stream id is not registered yields exactly one
\* Unidentifiable error carrying that id, changes no sequence and adds no
\* entry; the frames after it are still processed.
C8_UnidentifiableContinues ==
    [][ /\ (TookFrame /\ IsTrade(LastTaken)
              /\ TradeStreamId(LastTaken) \notin DOMAIN streams)
            => /\ pulled' = Append(pulled,
                      ErrItem("Unidentifiable", TradeStreamId(LastTaken), NoPayload))
               /\ streams' = streams
               /\ buffer' = buffer
               /\ task' = "runnable"
               /\ pc' = "running"
        /\ HasPulled("Unidentifiable") => TradeDelivered ]_vars

C8_Witness ==
    /\ Len(pulled) = 2
    /\ pulled[1].kind = "Unidentifiable"
    /\ pulled[1].stream_id = to_lowercase(ETHUSDT) \o AtAggTrade
    /\ pulled[2].tag = "Ok"

\* C9: a ping or pong frame produces no item and leaves every sequence and
\* the buffer unchanged, wherever it stands in the frame sequence.
C9_SkipTransparent ==
    [][ (TookFrame /\ LastTaken.kind \in {"Ping", "Pong"})
            => /\ pulled' = pulled
               /\ streams' = streams
               /\ buffer' = buffer ]_vars

C9_Witness ==
    /\ Len(read) = 3 /\ read[1].kind = "Ping" /\ read[2].kind = "Text"
    /\ read[3].kind = "Pong" /\ Len(pulled) = 1

\* C10: a subscription confirmation that indicates failure yields exactly one
\* Subscribe error, no event, and changes no sequence.
C10_SubscribeFailure ==
    [][ (TookFrame /\ IsSubscribed(LastTaken, "Some"))
            => /\ pulled' = Append(pulled, ErrItem("Subscribe", <<>>, NoPayload))
               /\ streams' = streams
               /\ buffer' = buffer ]_vars

C10_Witness ==
    /\ Len(read) = 2 /\ IsSubscribed(read[2], "Some")
    /\ Len(pulled) = 2 /\ pulled[1].tag = "Ok" /\ pulled[2].kind = "Subscribe"

\* The frames a poll_next step took from the transport
TakenFrames == SubSeq(read', Len(read) + 1, Len(read'))

\* C11 (as claimed): a step that takes only successful subscription
\* confirmations delivers no item and changes no transformer state, whatever
\* transformer the socket was built with.
C11_ConfirmationSilent ==
    [][ (TookFrame /\ \A i \in DOMAIN TakenFrames : IsSubscribed(TakenFrames[i], "None"))
            => /\ pulled' = pulled
               /\ buffer' = buffer
               /\ streams' = streams ]_vars

\* C11 (amended): with the BinanceFutures transformer such a step delivers
\* nothing and changes no sequence; the example's StatefulTransformer
\* delivers one Ok item, the running sum, which the confirmation leaves as
\* it was.
C11_ConfirmationSilentBinance ==
    [][ /\ (pc = "running" /\ TookFrame
              /\ \A i \in DOMAIN TakenFrames : IsSubscribed(TakenFrames[i], "None"))
            => /\ pulled' = pulled
               /\ buffer' = buffer
               /\ streams' = streams
        /\ (pc = "example" /\ TookFrame /\ IsSubscribed(LastTaken, "None"))
            => /\ pulled' = Append(pulled, VolumeItem(sum_of_volume))
               /\ sum_of_volume' = sum_of_volume ]_vars

C11_Witness ==
    /\ pc = "running"
    /\ Len(read) = 2 /\ IsSubscribed(read[1], "None") /\ IsTrade(read[2])
    /\ pulled = <<OkItem(0, Instrument(btc, usdt, "FuturePerpetual"), 1)>>

\* C12: poll_next takes a frame from the transport only when the buffer is
\* empty, and within one call a further frame is taken only after a frame
\* that left nothing in the buffer (a successful confirmation): the outputs
\* of a frame are delivered before a later frame is consumed.
C12_DrainBeforePoll ==
    [][ TookFrame
          => /\ buffer = <<>>
             /\ \A i \in 1..(Len(TakenFrames) - 1) :
                    IsSubscribed(TakenFrames[i], "None") ]_vars

C12_Witness ==
    /\ Len(read) >= 2 /\ IsTrade(read[1]) /\ IsTrade(read[2])
    /\ Len(pulled) >= 2 /\ pulled[1].tag = "Ok" /\ pulled[2].tag = "Ok"
    /\ buffer = <<>>

\* C13: the last poll_next call reported the end of the stream exactly when
\* its poll of the transport did; the buffer is then empty and every output
\* of every frame the transport ever held has been delivered.
C13_EndOfStream ==
    /\ (last.ret = "End") <=> (last.transport = "End")
    /\ last.ret = "End"
         => /\ buffer = <<>>
            /\ inbox = <<>>
            /\ exhausted
            /\ pulled = ExpectedItems(InitialStreams, read)

C13_Witness ==
    /\ last.ret = "End"
    /\ Len(read) >= 2 /\ IsTrade(read[1])
    /\ Len(pulled) >= 2 /\ pulled[1].tag = "Ok"

\* The events among the items pulled so far, in order
Events(items) == SelectSeq(items, LAMBDA item : item.tag = "Ok")

PulledItem == Len(pulled') > Len(pulled)

\* C14: a deserialise, subscribe or unidentifiable error item leaves the
\* forwarding task running, and as long as the receiver lives the channel has
\* been sent every event the stream yielded, those after an error included.
C14_ErrorContinues ==
    [][ /\ (PulledItem /\ last'.item.tag = "Err"
              /\ last'.item.kind \in {"Serde", "Subscribe", "Unidentifiable"})
            => task' = "runnable"
        /\ rx_open' => channel' = Events(pulled') ]_vars

C14_Witness ==
    /\ rx_open
    /\ Len(pulled) = 3
    /\ pulled[1].tag = "Ok"
    /\ pulled[2].tag = "Err" /\ pulled[2].kind = "Serde"
    /\ pulled[3].tag = "Ok"
    /\ channel = <<pulled[1], pulled[3]>>

\* C15: pulling a transport error or a Terminated error item ends the
\* forwarding task.
C15_TransportErrorExits ==
    [][ (PulledItem /\ last'.item.tag = "Err"
           /\ last'.item.kind \in {"WebSocket", "Terminated"})
          => task' = "done" ]_vars

\* C16: a failed send ends the forwarding task, which takes no frame from
\* the transport after a send has failed.
C16_SendFailureExits ==
    [][ /\ send_failed' > send_failed => task' = "done"
        /\ send_failed > 0 => read' = read ]_vars

\* C17: no step removes a registered SubscriptionId or lowers its Sequence
\* counter.
C17_SequenceNeverReset ==
    [][ \A S \in DOMAIN streams :
            /\ S \in DOMAIN streams'
            /\ streams'[S].sequence >= streams[S].sequence ]_vars

btcusdt_trade == btc \o usdt \o <<"@">> \o tradeEvent
btcusdt_aggTrade == btc \o usdt \o <<"@">> \o aggTrade

\* The number of frames among the first n read whose derived id is S
ReadFor(S, n) == Cardinality({j \in 1..n : TradeStreamId(read[j]) = S})

C19_ParseOutcomes ==
    \A i \in 1..Len(parse_calls) :
        LET input == parse_calls[i].input
            output == parse_calls[i].output
        IN  /\ (output.opt = "None") <=> (input.kind \in {"Ping", "Pong"})
            /\ input.kind = "Error"
                 => output = ParseErr(ErrItem("WebSocket", <<>>, NoPayload))
            /\ input.kind = "Close"
                 => output = ParseErr(ErrItem("Terminated", <<>>, NoPayload))
            /\ input.kind \in {"Text", "Binary"}
                 => /\ output.opt = "Some"
                    /\ IF Deserialise(input.payload).ok
                       THEN output = ParseOk(Deserialise(input.payload).msg)
                       ELSE ~output.ok /\ output.err.kind = "Serde"

C19_Witness ==
    /\ Len(parse_calls) = 3
    /\ parse_calls[1].input.kind = "Ping" /\ parse_calls[1].output.opt = "None"
    /\ parse_calls[2].input.kind = "Close" /\ parse_calls[2].output.opt = "Some"
    /\ parse_calls[3].input.kind = "Error" /\ parse_calls[3].output.opt = "Some"

\* C20: the error of a text or binary frame that fails to deserialise
\* carries the frame's payload as it was received.
C20_ErrorCarriesPayload ==
    \A i \in 1..Len(parse_calls) :
        (/\ parse_calls[i].input.kind \in {"Text", "Binary"}
         /\ ~Deserialise(parse_calls[i].input.payload).ok)
          => /\ parse_calls[i].output.err.kind = "Serde"
             /\ parse_calls[i].output.err.payload = parse_calls[i].input.payload

\* C21: what the consumer has received followed by what is still queued is
\* the sequence of events the forwarding task pulled, in the order pulled;
\* when the consumer sees the channel closed it has received all of them.
C21_ChannelFifo ==
    /\ received \o channel = Events(pulled)
    /\ rx_closed => received = Events(pulled)

C21_Witness ==
    /\ Len(received) = 2
    /\ received[1].id = 2 /\ received[2].id = 1
    /\ received = Events(pulled)

\* C22: with a consumer that never receives, the task is suspended only by
\* a Pending stream and ends only at the end of the stream, however long
\* the queue is, and every event pulled is in the queue.
C22_SendNeverBlocks ==
    /\ task = "suspended" => last.ret = "Pending"
    /\ task = "done" => last.ret = "End"
    /\ (rx_open /\ received = <<>>) => Len(channel) = Len(Events(pulled))

C22_Witness ==
    /\ rx_open
    /\ received = <<>>
    /\ Len(channel) = 3
    /\ task = "runnable"

\* C29: when the stream has yielded its end the forwarding task has ended,
\* a consumer that keeps receiving then eventually sees the channel
\* closed, and it sees that only after the task has ended and every
\* forwarded event has been received.
C29_ChannelCloses ==
    /\ [](last.ret = "End" => task = "done")
    /\ (last.ret = "End") ~> rx_closed
    /\ [](rx_closed => /\ task = "done"
                       /\ channel = <<>>
                       /\ received = Events(pulled))

C29_Witness ==
    /\ rx_closed
    /\ Len(received) = 2
    /\ last.ret = "End"

\* C30: whatever error item the forwarding task pulls, the channel is left
\* as it was, and everything on the channel is an event.
C30_OnlyEvents ==
    [][ /\ (PulledItem /\ last'.item.tag = "Err") => channel' = channel
        /\ \A i \in 1..Len(channel') :
              channel'[i].tag = "Ok" /\ channel'[i].kind = "Trade" ]_vars

C30_Witness ==
    /\ Len(pulled) = 3
    /\ pulled[1].tag = "Err" /\ pulled[1].kind = "WebSocket"
    /\ pulled[2].tag = "Err" /\ pulled[2].kind = "Terminated"
    /\ pulled[3].tag = "Ok"
    /\ channel = <<pulled[3]>>

\* The steps init can take, as pairs of positions
InitOrder ==
    { <<"start", "connected">>, <<"start", "failed">>,
      <<"connected", "subscribing">>,
      <<"subscribing", "subscribing">>, <<"subscribing", "failed">>,
      <<"subscribing", "running">>,
      <<"running", "running">> }

\* The SubscriptionIds named by a sequence of subscription payloads
RequestedIds(payloads) ==
    UNION { { payloads[i].params[j] : j \in DOMAIN payloads[i].params } :
            i \in DOMAIN payloads }

\* C23: init goes connect, generate subscriptions, send every payload,
\* construct the stream; every id a sent payload names is already
\* registered, a failed connect or send ends init with no stream, no frame
\* is taken before the stream is constructed, and no trade of a requested
\* channel is Unidentifiable.
C23_InitOrder ==
    [][ /\ <<pc, pc'>> \in InitOrder
        /\ (pc = "start" /\ pc' = "connected")
              => streams' = BinanceFuturesNew /\ sent' = <<>> /\ outbox' = <<>>
        /\ sent' # sent
              => pc = "subscribing" /\ RequestedIds(sent') \subseteq DOMAIN streams
        /\ (pc = "subscribing" /\ pc' = "running")
              => outbox = <<>> /\ sent # <<>> /\ streams' = streams
        /\ pc' # "running"
              => read' = <<>> /\ pulled' = <<>> /\ inbox' = <<>>
        /\ \A i \in 1..Len(pulled') :
              pulled'[i].kind = "Unidentifiable"
                 => pulled'[i].stream_id \notin RequestedIds(sent') ]_vars

C23_Witness ==
    /\ pc = "running"
    /\ RequestedIds(sent) = DOMAIN streams
    /\ Cardinality(DOMAIN streams) = 2
    /\ Len(pulled) = 2 /\ pulled[1].tag = "Ok" /\ pulled[2].tag = "Ok"
    /\ pulled[1].instrument # pulled[2].instrument

\* C26: a step whose last frame is a trade of a registered SubscriptionId S
\* delivers exactly one more item, the event stamped with S's sequence as
\* it was before the step, and changes the transformer's map in one place
\* only: S's sequence is one higher.
C26_TransformFrame ==
    [][ (TookFrame /\ IsTrade(LastTaken)
           /\ TradeStreamId(LastTaken) \in DOMAIN streams)
          => LET S == TradeStreamId(LastTaken)
             IN  /\ pulled' = Append(pulled,
                                     OkItem(streams[S].sequence,
                                            streams[S].subscription.instrument,
                                            LastTaken.payload.a))
                 /\ buffer' = <<>>
                 /\ streams' = [streams EXCEPT ![S].sequence = @ + 1] ]_vars

C26_Witness ==
    /\ Cardinality(DOMAIN streams) = 2
    /\ \E S, T \in DOMAIN streams :
          streams[S].sequence = 2 /\ streams[T].sequence = 0
    /\ Len(pulled) = 2 /\ pulled[1].sequence = 0 /\ pulled[2].sequence = 1
    /\ pulled[2].tag = "Ok"

\* C27: after a poll_next call has returned the end of the stream, the next
\* call returns the end of the stream again and delivers nothing.
C27_EndAbsorbing ==
    [][ last.ret = "End" => last'.ret = "End" /\ pulled' = pulled ]_vars

\* C28: a Sink call leaves the buffer, the transformer and everything the
\* pull side has done as they were, and returns the transport's outcome
\* with any error replaced by the Sink error; with pushes interleaved the
\* items pulled are still those of the frames read.
C28_SinkDelegates ==
    [][ /\ sink_calls' # sink_calls
          => /\ buffer' = buffer /\ streams' = streams
             /\ inbox' = inbox /\ read' = read /\ pulled' = pulled
             /\ LET call == sink_calls'[Len(sink_calls')]
                IN  /\ call.transport \in {"Ok", "Pending"}
                       => call.ret = call.transport
                    /\ call.transport = "Err" => call.ret = "Err(Sink)"
                    /\ sent' # sent
                       <=> (call.op = "start_send" /\ call.transport = "Ok")
        /\ pulled' \o buffer' = ExpectedItems(InitialStreams', read') ]_vars

C28_Witness ==
    /\ Len(sink_calls) = 2
    /\ sink_calls[1].op = "start_send" /\ sink_calls[1].ret = "Ok"
    /\ sink_calls[2].op = "poll_flush" /\ sink_calls[2].ret = "Err(Sink)"
    /\ Len(sent) = 2
    /\ Len(read) = 2 /\ Len(pulled) = 2 /\ pulled[2].tag = "Ok"

\* C24: two Markets that differ never get the same MarketId.
C24_MarketIdUnique ==
    \A i, j \in 1..Len(calls) :
        calls[i].input # calls[j].input => calls[i].output # calls[j].output

\* The InstrumentKind whose name a string is
KindNamed(s) == CHOOSE k \in {"Spot", "FuturePerpetual"} : KindDisplay(k) = s

\* base and quote are strings and instrument_type names a kind
ValidInstrumentJson(json) ==
    /\ json.base.t = "string"
    /\ json.quote.t = "string"
    /\ json.instrument_type.t = "string"
    /\ \E k \in {"Spot", "FuturePerpetual"} : KindDisplay(k) = json.instrument_type.s

\* Instrument::from((base, quote, kind)) of the values in the object
InstrumentOf(json) ==
    Instrument(Symbol(json.base.s), Symbol(json.quote.s),
               KindNamed(json.instrument_type.s))

\* C25: an Instrument deserialises exactly when base and quote are strings
\* and instrument_type names a kind, a Market when exchange is a string as
\* well; the value is the one built from the object's values, and every
\* other object is an error with no value in its place.
C25_Deserialise ==
    \A i \in 1..Len(calls) :
        LET json == calls[i].input
            output == calls[i].output
        IN  IF calls[i].type = "Instrument"
            THEN IF ValidInstrumentJson(json)
                 THEN output.ok /\ output.value = InstrumentOf(json)
                 ELSE ~output.ok /\ output.value = NoInstrument
            ELSE IF ValidInstrumentJson(json) /\ json.exchange.t = "string"
                 THEN /\ output.ok
                      /\ output.value = Market(json.exchange.s, InstrumentOf(json))
                 ELSE ~output.ok /\ output.value = NoMarket

C25_Witness ==
    /\ Len(calls) = 1
    /\ calls[1].type = "Market"
    /\ calls[1].input.base = JsonString(<<"B", "T", "C">>)
    /\ calls[1].output.ok
    /\ calls[1].output.value =
          Market(<<"b">>, Instrument(btc, usdt, "FuturePerpetual"))


\* C31: build of a builder with no registered exchange returns the
\* Subscribe error, having made no connection, sent nothing and spawned no
\* task; a build that returns Ok had at least one exchange registered and
\* returns one receiver for each registered exchange, each with its task.
C31_Build ==
    /\ (DOMAIN config = {} /\ pc # "builder")
          => /\ build_ret = "Err(Subscribe)"
             /\ pc = "built"
             /\ sent = <<>>
             /\ spawned = {}
             /\ exchange_streams = <<>>
    /\ build_ret = "Err(Subscribe)" => DOMAIN config = {}
    /\ build_ret = "Ok"
          => /\ DOMAIN config # {}
             /\ DOMAIN exchange_streams = DOMAIN config
             /\ spawned = DOMAIN config

C31_Witness ==
    /\ build_ret = "Ok"
    /\ Len(adds) = 1
    /\ DOMAIN exchange_streams = {"BinanceFutures"}
    /\ Len(received) = 1

AddedIds ==
    UNION { { get_stream_id(SubscriptionFrom(adds[i].config[j])) :
                j \in DOMAIN adds[i].config } : i \in DOMAIN adds }

\* C33: once build has initialised the exchange, every StreamConfig passed
\* to any add call has been subscribed to: its SubscriptionId is named in
\* a payload sent and is registered in the transformer.
C33_AddAccumulates ==
    pc = "running"
        => /\ AddedIds \subseteq RequestedIds(sent)
           /\ AddedIds \subseteq DOMAIN streams

\* C34: after generate_subscriptions on a list of n distinct Subscriptions
\* the transformer's map has n entries and the id of every Subscription of
\* the list is mapped to that Subscription.
C34_DistinctIds ==
    \A c \in 1..Len(calls) :
        /\ Cardinality(DOMAIN calls[c].streams) = Len(calls[c].input)
        /\ \A i \in DOMAIN calls[c].input :
              calls[c].streams[get_stream_id(calls[c].input[i])].subscription
                  = calls[c].input[i]

\* execute has just returned what parse returned
Parsed == rest_log # <<>> /\ rest_log[Len(rest_log)] = "parse"

\* C35: what parse returns is decided in a fixed order.  A body with the
\* fields of the Response type gives Ok whatever the status code; any other
\* JSON body gives the error parse_api_error made of it; a body that is no
\* JSON gives DeserialiseBinary carrying the error of the Response
\* deserialisation and the whole body.  The result has one of these shapes.
C35_ParseOrder ==
    Parsed =>
        LET body == response.payload
            api == parse_api_error(response.status, body)
        IN  /\ rest_ret.tag \in {"Ok", "Err"}
            /\ (body.wellformed /\ {"success", "result"} \subseteq body.fields)
                   => rest_ret = [tag |-> "Ok", value |-> "FetchBalancesResponse"]
            /\ (body.wellformed /\ ~({"success", "result"} \subseteq body.fields))
                   => /\ api.ok
                      /\ rest_ret = [tag |-> "Err", error |-> api.value]
                      /\ rest_ret.error.kind \in {"Unauthorised", "HttpResponse"}
            /\ ~body.wellformed
                   => /\ ~api.ok
                      /\ rest_ret.tag = "Err"
                      /\ rest_ret.error.kind = "DeserialiseBinary"
                      /\ rest_ret.error.error.type = "FetchBalancesResponse"
                      /\ rest_ret.error.payload = body

C35_Witness ==
    /\ Parsed
    /\ response = [status |-> 401, payload |-> BalancesJson]
    /\ rest_ret.tag = "Ok"
    /\ Len(metrics) = 2

\* The steps that end an execute call
Returning == {"build_err", "http_err", "bytes_err", "parse"}

\* C36: every execute call goes build, HTTP call, parse and stops at the
\* first failure.  The HTTP call is made only right after a build that
\* returned Ok, a metric is sent only after a response, parse is called
\* only after the response and its body were received, and after a failed
\* build, HTTP call or body read the call does nothing more and returns Err.
C36_ExecuteOrder ==
    /\ \A i \in 1..Len(rest_log) :
          LET step == rest_log[i]
              before == IF i = 1 THEN "none" ELSE rest_log[i - 1]
          IN  /\ step = "execute" => before \in Returning \cup {"none"}
              /\ step \in {"build_ok", "build_err"} => before = "execute"
              /\ step \in {"http_ok", "http_err"} => before = "build_ok"
              /\ step \in {"metric_sent", "metric_failed"} => before = "http_ok"
              /\ step \in {"bytes_ok", "bytes_err"}
                    => before \in {"metric_sent", "metric_failed"}
              /\ step = "parse" => before = "bytes_ok"
              /\ before \in Returning => step = "execute"
    /\ (rest_log # <<>> /\ rest_log[Len(rest_log)] \in Returning \ {"parse"})
          => rest_pc = "idle" /\ rest_ret.tag = "Err"
    /\ rest_ret.tag # "none" => rest_pc = "idle"

C36_Witness ==
    rest_log = <<"execute", "build_err",
                 "execute", "build_ok", "http_ok", "metric_sent", "bytes_ok", "parse">>

\* The number of steps of the given kinds execute has taken
Steps(kinds) == Len(SelectSeq(rest_log, LAMBDA step : step \in kinds))

\* C37: one duration metric is sent for every response received, whatever
\* its status code, and none for an HTTP call that failed; the metric
\* channel holds the metrics whose send succeeded; a send that fails
\* because the receiver is gone returns nothing to the caller: the call
\* goes on to read the body and returns what parse makes of the response.
C37_OneMetric ==
    /\ Steps({"metric_sent", "metric_failed"})
          = Steps({"http_ok"}) - (IF rest_pc = "responded" THEN 1 ELSE 0)
    /\ Len(metrics) = Steps({"metric_sent"})
    /\ \A i \in 1..Len(rest_log) :
          /\ rest_log[i] \in {"metric_sent", "metric_failed"}
                => i > 1 /\ rest_log[i - 1] = "http_ok"
          /\ (i > 1 /\ rest_log[i - 1] = "http_err") => rest_log[i] = "execute"
    /\ (rest_log # <<>>
        /\ rest_log[Len(rest_log)] \in {"metric_sent", "metric_failed"})
          => /\ rest_pc = "measured"
             /\ rest_ret = NoResult
             /\ rest_log[Len(rest_log)] = "metric_sent"
                   => metrics[Len(metrics)].status_code = response.status
    /\ Parsed => rest_ret = HttpParserParse(response.status, response.payload)

C37_Witness ==
    /\ Parsed
    /\ Len(rest_log) = 12
    /\ rest_log[4] = "metric_sent"
    /\ rest_log[10] = "metric_failed"
    /\ Len(metrics) = 1
    /\ metrics[1].status_code = 401
    /\ rest_ret.tag = "Ok"

\* Two strings that differ in the case of their letters at most
DifferOnlyInCase(s1, s2) ==
    /\ Len(s1) = Len(s2)
    /\ \A i \in 1..Len(s1) :
          \/ s1[i] = s2[i]
          \/ {s1[i], s2[i]} \in {{"b", "B"}, {"t", "T"}}

\* C38: Symbol::new, From and Deserialize give the same Symbol, it holds no
\* upper-case letter and making a Symbol of it again changes nothing; two
\* strings that differ only in letter case give equal Symbols on every
\* path, equal Instruments and equal SubscriptionIds.
C38_SymbolCase ==
    \A i, j \in 1..Len(calls) :
        /\ calls[i].from = calls[i].new
        /\ calls[i].de = [ok |-> TRUE, value |-> calls[i].new]
        /\ \A n \in 1..Len(calls[i].new) : calls[i].new[n] \notin {"B", "T"}
        /\ calls[i].twice = calls[i].new
        /\ DifferOnlyInCase(calls[i].input, calls[j].input)
              => /\ calls[i].new = calls[j].new
                 /\ calls[i].from = calls[j].from
                 /\ calls[i].de = calls[j].de
                 /\ calls[i].instrument = calls[j].instrument
                 /\ calls[i].de_instrument = calls[j].de_instrument
                 /\ calls[i].id = calls[j].id

C38_Witness ==
    /\ Len(calls) = 2
    /\ calls[1].input = <<"B", "t">>
    /\ calls[2].input = <<"b", "T">>
    /\ calls[1].de_instrument.ok
    /\ calls[1].id = calls[2].id
=============================================================================
